---- MODULE Spec2Model ----
(***************************************************************************)
(* A model of the recovery engine of go/logic/topology_recovery.go:        *)
(* the dispatcher (executeCheckAndRecoverFunction), the three executors    *)
(* (dead master, dead intermediate master, dead co-master), candidate      *)
(* replacement, and the recovery record store they register and resolve    *)
(* recoveries in.                                                          *)
(*                                                                         *)
(* A dispatch runs in four steps, each atomic: Dispatch (routing, probes,  *)
(* leader and detection gates, policy gate, registration), Recover (the    *)
(* executor up to, not including, the resolution), Resolve (the            *)
(* resolution) and Finish (the executor's tail, post hooks, postponed      *)
(* functions, return).  Several dispatches interleave at these steps.      *)
(* Everything the                                                          *)
(* engine reads from its collaborators (hooks, rewirer, metadata store) is *)
(* chosen nondeterministically within the collaborator's contract.         *)
(***************************************************************************)
EXTENDS Integers, Sequences, FiniteSets, TLC

\* ------------------------------------------------------------------ bounds

\* Number of dispatches, each a call of executeCheckAndRecoverFunction; they
\* may be in flight together or follow one another.
NumProcs == 2

\* Last instant of the clock.
MaxClock == 2

\* The operator-configured cooldown after a completed recovery.
Cooldown == 2

Procs == 1..NumProcs

Nil == "nil"

\* Largest number of hooks configured in one hook batch.
MaxHooks == 1

\* Largest number of replicas below a failed instance.
MaxReplicas == 2

\* Largest number of hooks of a batch run on its own.
MaxBatch == 3

\* Largest number of pieces, placeholders or text, of a hook's command.
MaxTokens == 2

\* Largest number of siblings of a failed intermediate master.
MaxSiblings == 2

\* Last instant of the clock, in seconds, of the runs that follow an
\* emergency operation's grace window.
GraceHorizon == 6

\* Seconds an item of emergencyOperationGracefulPeriodMap lives.
GracePeriod == 5

\* Seconds an item of emergencyRestartReplicaTopologyInstanceMap lives.
RestartThrottle == 30

\* ---------------------------------------------------------------- topology

\* The instances an analysis may name as failed.
FailedKeys == {"k1", "k2"}

\* AnalyzedInstanceMasterKey: the failed instance's own master (for a
\* co-master, the other co-master).
MasterKeyOf(k) == IF k = "k1" THEN "p1" ELSE "p2"

\* The keys that may replicate from a failed instance, in the order the
\* metadata store lists them.
ReplicaSeq(k) == IF k = "k1" THEN <<"a1", "a2", "a3">> ELSE <<"b1", "b2", "b3">>

\* The candidate sibling of a failed intermediate master, when it has one.
SiblingOf(k) == IF k = "k1" THEN "s1" ELSE "s2"

Range(s) == {s[i] : i \in DOMAIN s}

ReplicaKeys == UNION {Range(ReplicaSeq(k)) : k \in FailedKeys}

MasterKeys == {MasterKeyOf(k) : k \in FailedKeys}

SiblingKeys == {SiblingOf(k) : k \in FailedKeys}

AllKeys == FailedKeys \cup MasterKeys \cup ReplicaKeys \cup SiblingKeys

\* inst.Instance, the attributes the engine reads.
Rules == {"must", "prefer", "neutral", "prefer_not", "must_not"}

DataCenters == {"dc1", "dc2"}

Regions == {"rg1", "rg2"}

Environments == {"env1", "env2"}

Profile(dc, rg, env, rule, ok) ==
    [DataCenter |-> dc, Region |-> rg, PhysicalEnvironment |-> env,
     PromotionRule |-> rule, IsLastCheckValid |-> ok, LogBinEnabled |-> TRUE,
     LogSlaveUpdatesEnabled |-> TRUE, IsBinlogServer |-> FALSE,
     ReadOnly |-> TRUE]

\* A failed instance, its master and its siblings sit in dc1.
HomeProfile == Profile("dc1", "rg1", "env1", "neutral", TRUE)

\* The attribute combinations a replica is drawn from.
ReplicaProfiles ==
    { Profile("dc1", "rg1", "env1", "prefer", TRUE),
      Profile("dc2", "rg2", "env1", "prefer", TRUE),
      Profile("dc1", "rg1", "env1", "neutral", TRUE),
      Profile("dc2", "rg1", "env2", "neutral", TRUE),
      Profile("dc1", "rg2", "env1", "prefer_not", TRUE),
      Profile("dc1", "rg1", "env1", "must_not", TRUE),
      Profile("dc1", "rg1", "env1", "neutral", FALSE) }

\* -------------------------------------------------------------- configuration

\* config.Config, the knobs the engine reads.
Flags == {"PreventCrossDataCenterMasterFailover",
          "PreventCrossRegionMasterFailover",
          "DetachLostReplicasAfterMasterFailover",
          "MasterFailoverDetachReplicaMasterHost",
          "ApplyMySQLPromotionAfterMasterFailover",
          "FailMasterPromotionIfSQLThreadNotUpToDate",
          "DelayMasterPromotionIfSQLThreadNotUpToDate",
          "CoMasterRecoveryMustPromoteOtherCoMaster"}

\* The hook batches of the configuration.
Batches == {"OnFailureDetectionProcesses", "PreFailoverProcesses",
            "PostMasterFailoverProcesses",
            "PostIntermediateMasterFailoverProcesses",
            "PostFailoverProcesses", "PostUnsuccessfulFailoverProcesses",
            "PreGracefulTakeoverProcesses", "PostGracefulTakeoverProcesses"}

\* ------------------------------------------------------------------- state

VARIABLES
    config,      \* config.Config: the flag of each knob
    processes,   \* config.Config: the number of hooks of each hook batch
    instances,   \* the metadata store: the attributes of each instance
    replicas,    \* the metadata store: the replicas of each failed instance
    clock,       \* wall-clock time
    recoveries,  \* the recovery record store (table topology_recovery)
    counters,    \* the recover.* metrics counters
    pending,     \* countPendingRecoveries
    scenario,    \* what the environment of this run is made of
    pc,          \* where each dispatch stands
    loc,         \* each dispatch's arguments, locals and in-memory record
    call,        \* the entry point called, its arguments, locals and position
    emergency    \* the emergency operations' caches and spawned goroutines

vars == <<config, processes, instances, replicas, clock, recoveries, counters,
          pending, scenario, pc, loc, call, emergency>>

\* inst.AnalysisCode, the codes of the routing table and two without a route.
Codes == {"DeadMaster", "DeadMasterAndSomeSlaves", "DeadIntermediateMaster",
          "DeadIntermediateMasterAndSomeSlaves",
          "DeadIntermediateMasterWithSingleSlaveFailingToConnect",
          "AllIntermediateMasterSlavesFailingToConnectOrDead",
          "DeadIntermediateMasterAndSlaves", "DeadCoMaster",
          "DeadCoMasterAndSomeSlaves", "DeadMasterAndSlaves",
          "UnreachableMaster", "UnreachableMasterWithLaggingReplicas",
          "AllMasterSlavesNotReplicating",
          "AllMasterSlavesNotReplicatingOrDead",
          "FirstTierSlaveFailingToConnectToMaster", "NoProblem"}

\* The executors: checkAndRecoverDeadMaster, ...DeadIntermediateMaster,
\* ...DeadCoMaster, ...GenericProblem, and none.
Classes == {"master", "intermediate", "comaster", "generic", "none"}

CounterNames == {"dead_master.start", "dead_master.success", "dead_master.fail",
                 "dead_intermediate_master.start",
                 "dead_intermediate_master.success",
                 "dead_intermediate_master.fail", "dead_co_master.start",
                 "dead_co_master.success", "dead_co_master.fail"}

\* A variant of getCheckAndRecoverFunction that has no executor for any code.
getNoCheckAndRecoverFunction(code, inGrace) ==
    [fn |-> "none", actionable |-> FALSE]

\* getCheckAndRecoverFunction: the executor of an analysis code and whether
\* the recovery is actionable; inGrace is isInEmergencyOperationGracefulPeriod
\* of the analyzed instance.
getCheckAndRecoverFunction(code, inGrace) ==
    CASE code \in {"DeadMaster", "DeadMasterAndSomeSlaves"} ->
            IF inGrace THEN [fn |-> "generic", actionable |-> FALSE]
                       ELSE [fn |-> "master", actionable |-> TRUE]
      [] code \in {"DeadIntermediateMaster",
                   "DeadIntermediateMasterAndSomeSlaves",
                   "DeadIntermediateMasterWithSingleSlaveFailingToConnect",
                   "AllIntermediateMasterSlavesFailingToConnectOrDead"} ->
            [fn |-> "intermediate", actionable |-> TRUE]
      [] code = "DeadIntermediateMasterAndSlaves" ->
            [fn |-> "generic", actionable |-> FALSE]
      [] code \in {"DeadCoMaster", "DeadCoMasterAndSomeSlaves"} ->
            [fn |-> "comaster", actionable |-> TRUE]
      [] code \in {"DeadMasterAndSlaves", "UnreachableMaster",
                   "UnreachableMasterWithLaggingReplicas",
                   "AllMasterSlavesNotReplicating",
                   "AllMasterSlavesNotReplicatingOrDead"} ->
            [fn |-> "generic", actionable |-> FALSE]
      [] OTHER -> [fn |-> "none", actionable |-> FALSE]

\* --------------------------------------------------------- the record store

\* Whether the store holds an active recovery on key.
HasActiveRecovery(store, key) ==
    \E i \in DOMAIN store : store[i].key = key /\ store[i].isActive

\* Whether the store holds a recovery on key completed within the cooldown.
HasRecentRecovery(store, key, now) ==
    \E i \in DOMAIN store :
        /\ store[i].key = key
        /\ ~store[i].isActive
        /\ now - store[i].endTs < Cooldown

\* AttemptRecoveryRegistration: whether the attempt is refused (it then
\* returns nil).
RegistrationRefused(store, key, failIfActive, failIfRecent, now) ==
    \/ failIfActive /\ HasActiveRecovery(store, key)
    \/ failIfRecent /\ HasRecentRecovery(store, key, now)

\* AttemptRecoveryRegistration: the store after a successful attempt; the new
\* record is the last one.
AttemptRecoveryRegistration(store, key, forced, now) ==
    Append(store, [key |-> key, isActive |-> TRUE, startTs |-> now,
                   endTs |-> 0, forced |-> forced, resolved |-> 0,
                   successorKey |-> Nil])

\* writeResolveRecovery: the record's resolution as the store keeps it.
writeResolveRecovery(store, id, successorKey, now) ==
    [store EXCEPT ![id] = [@ EXCEPT !.isActive = FALSE, !.endTs = now,
                                    !.resolved = @ + 1,
                                    !.successorKey = successorKey]]

\* ------------------------------------------------------ the in-memory record

\* NewTopologyRecovery: the record of a fresh attempt; id is its place in the
\* store (0: not registered).
NewTopologyRecovery(id) ==
    [Id |-> id, SuccessorKey |-> Nil, IsSuccessful |-> FALSE,
     LostReplicas |-> {}, ParticipatingInstanceKeys |-> {}, AllErrors |-> 0,
     Type |-> "", RecoveryType |-> "NotMasterRecovery", Postponed |-> 0]

\* A variant of resolveRecovery that records the successor and leaves
\* IsSuccessful alone.
resolveRecoveryUnmarked(rec, successor) ==
    IF successor # Nil THEN [rec EXCEPT !.SuccessorKey = successor] ELSE rec

\* resolveRecovery: the in-memory record once resolved with successor (a key,
\* or Nil for a nil instance).
resolveRecovery(rec, successor) ==
    IF successor # Nil
      THEN [rec EXCEPT !.SuccessorKey = successor, !.IsSuccessful = TRUE]
      ELSE rec

\* TopologyRecovery.AddError: the record with err noted, when there is one.
AddError(rec, err) ==
    IF err THEN [rec EXCEPT !.AllErrors = @ + 1] ELSE rec

\* -------------------------------------------------------------------- hooks

\* One step of the dispatch's audit trail: what was done, on what, how many
\* hooks ran, and whether it failed.
Ev(ev, what) == [ev |-> ev, what |-> what, n |-> 0, err |-> FALSE]

\* A step that failed.
Failed(e) == [e EXCEPT !.err = TRUE]

\* The hooks from a to b, in their configured order.
FromTo(a, b) == [k \in 1..(b - a + 1) |-> a + k - 1]

RECURSIVE runHooks(_, _, _, _)
\* executeProcesses' loop from hook i of n on: the hooks run, in the order
\* they ran, their number, and the first failing hook (0: none), whose error
\* is the one returned; fails holds the hooks that exit non-zero.
runHooks(i, n, fails, failOnError) ==
    IF i > n THEN [ran |-> n, first |-> 0, order |-> <<>>]
    ELSE IF i \in fails
      THEN IF failOnError
             THEN [ran |-> i, first |-> i, order |-> <<i>>]
             ELSE [ran |-> n,
                   first |-> i, order |-> FromTo(i, n)]
      ELSE [runHooks(i + 1, n, fails, failOnError) EXCEPT
               !.order = <<i>> \o @]

\* A variant of executeProcesses that goes on after a failing hook whatever
\* failOnError.
executeEveryProcess(n, fails, failOnError) ==
    IF n = 0 THEN [ran |-> 0, first |-> 0, order |-> <<>>]
             ELSE runHooks(1, n, fails, FALSE)

\* executeProcesses: a batch of n hooks run in order.
executeProcesses(n, fails, failOnError) ==
    IF n = 0 THEN [ran |-> 0, first |-> 0, order |-> <<>>]
             ELSE runHooks(1, n, fails, failOnError)

\* The placeholders replaceCommandPlaceholders replaces, in the order it
\* replaces them when the recovery has a successor.
Placeholders ==
    <<"{failureType}", "{failureDescription}", "{command}", "{failedHost}",
      "{failedPort}", "{failureCluster}", "{failureClusterAlias}",
      "{failureClusterDomain}", "{countSlaves}", "{countReplicas}",
      "{isDowntimed}", "{autoMasterRecovery}",
      "{autoIntermediateMasterRecovery}", "{orchestratorHost}",
      "{recoveryUID}", "{isSuccessful}", "{successorHost}",
      "{successorPort}", "{successorAlias}", "{lostSlaves}", "{lostReplicas}",
      "{countLostReplicas}", "{slaveHosts}", "{replicaHosts}">>

\* The placeholders replaced only when the recovery has a successor key.
SuccessorPlaceholders ==
    {"{successorHost}", "{successorPort}", "{successorAlias}"}

\* The field a placeholder takes its value from: the legacy placeholders share
\* the field of the ones that replaced them.
FieldOf(placeholder) ==
    CASE placeholder = "{lostSlaves}" -> "{lostReplicas}"
      [] placeholder = "{slaveHosts}" -> "{replicaHosts}"
      [] placeholder = "{countSlaves}" -> "{countReplicas}"
      [] OTHER -> placeholder

\* The text a placeholder is replaced by, as the pieces of a command: empty
\* for a field that is empty, a piece of text otherwise.
ValueOf(placeholder, empty) ==
    IF FieldOf(placeholder) \in empty THEN <<>> ELSE <<"text">>

RECURSIVE Replace(_, _, _)
\* strings.Replace(command, old, new, -1) on a command given as its pieces,
\* each a placeholder or a piece of text.
Replace(command, old, new) ==
    IF command = <<>> THEN <<>>
    ELSE (IF Head(command) = old THEN new ELSE <<Head(command)>>)
             \o Replace(Tail(command), old, new)

\* A variant of ReplacesPlaceholder that replaces every placeholder.
ReplacesEveryPlaceholder(placeholder, successorKey) == TRUE

\* Whether replaceCommandPlaceholders replaces the placeholder: the
\* successor's are replaced only when the recovery has a successor key.
ReplacesPlaceholder(placeholder, successorKey) ==
    placeholder \in SuccessorPlaceholders => successorKey # Nil

RECURSIVE replaceFrom(_, _, _, _)
\* replaceCommandPlaceholders from the i-th replacement on.
replaceFrom(i, command, successorKey, empty) ==
    IF i > Len(Placeholders) THEN command
    ELSE replaceFrom(i + 1,
             IF ReplacesPlaceholder(Placeholders[i], successorKey)
               THEN Replace(command, Placeholders[i],
                            ValueOf(Placeholders[i], empty))
               ELSE command,
             successorKey, empty)

\* replaceCommandPlaceholders of a command for a recovery with the successor
\* key given (Nil: none) and the empty fields given.
replaceCommandPlaceholders(command, successorKey, empty) ==
    replaceFrom(1, command, successorKey, empty)

\* The audit step of a hook batch run.
HookEv(batch, fails, failOnError) ==
    LET r == executeProcesses(processes[batch], fails, failOnError)
    IN  [ev |-> "hooks", what |-> batch, n |-> r.ran, err |-> r.first # 0]

\* A hook batch run whose result the caller discards.
Discarded(h) == [h EXCEPT !.err = FALSE]

\* A variant of PreFailoverAborts under which the executor goes on whatever
\* the hooks returned.
PreFailoverNeverAborts(skipProcesses, h) == FALSE

\* Whether an executor returns on its PreFailoverProcesses hooks, run unless
\* skipProcesses: it does when one of them failed.
PreFailoverAborts(skipProcesses, h) == ~skipProcesses /\ h.err

\* The hooks of a batch that may fail.
HookFailures(batch) == SUBSET (1..processes[batch])

\* ------------------------------------------------------ candidate selection

\* inst.IsBannedFromBeingCandidateReplica: banned by promotion rule.
IsBannedFromBeingCandidateReplica(k) ==
    instances[k].PromotionRule = "must_not"

\* Instance.CanReplicateFrom: whether toBeTakenOver can replicate from other.
CanReplicateFrom(toBeTakenOver, other) ==
    /\ instances[other].LogBinEnabled
    /\ instances[other].LogSlaveUpdatesEnabled
    /\ toBeTakenOver # other

isGenerallyValidAsWouldBeMaster(replica, requireLogSlaveUpdates) ==
    /\ instances[replica].IsLastCheckValid
    /\ instances[replica].LogBinEnabled
    /\ ~(requireLogSlaveUpdates /\ ~instances[replica].LogSlaveUpdatesEnabled)
    /\ ~instances[replica].IsBinlogServer
    /\ ~IsBannedFromBeingCandidateReplica(replica)

\* A variant of MasterKeyEquals that takes any instance for a replica of the
\* promoted one.
MasterKeyUnchecked(replica, master, under) == TRUE

\* replica.MasterKey.Equals(&master.Key); under holds the instances whose
\* master is master.
MasterKeyEquals(replica, master, under) == replica \in under

\* canTakeOverPromotedServerAsMaster; under holds the instances whose master
\* is toBeTakenOver.
canTakeOverPromotedServerAsMaster(wantToTakeOver, toBeTakenOver, under) ==
    /\ isGenerallyValidAsWouldBeMaster(wantToTakeOver, TRUE)
    /\ MasterKeyEquals(wantToTakeOver, toBeTakenOver, under)
    /\ CanReplicateFrom(toBeTakenOver, wantToTakeOver)

\* A variant of MasterFailoverGeographicConstraintSatisfied that is satisfied
\* with any instance.
GeographicConstraintIgnored(failedKey, suggested) == TRUE

\* MasterFailoverGeographicConstraintSatisfied of the instance suggested for
\* the failed instance failedKey (the analysis entry carries the failed
\* instance's data center and region).
MasterFailoverGeographicConstraintSatisfied(failedKey, suggested) ==
    /\ ~(/\ config["PreventCrossDataCenterMasterFailover"]
          /\ instances[suggested].DataCenter # instances[failedKey].DataCenter)
    /\ ~(/\ config["PreventCrossRegionMasterFailover"]
          /\ instances[suggested].Region # instances[failedKey].Region)

\* The instances of the failed instance's cluster, as the store lists them.
ClusterSeq(failedKey) ==
    SelectSeq(ReplicaSeq(failedKey), LAMBDA k : k \in replicas[failedKey])
        \o <<MasterKeyOf(failedKey)>>

\* inst.ReadClusterCandidateInstances.
ReadClusterCandidateInstances(failedKey) ==
    SelectSeq(ClusterSeq(failedKey),
              LAMBDA k : instances[k].PromotionRule \in {"must", "prefer"})

\* inst.ReadClusterNeutralPromotionRuleInstances.
ReadClusterNeutralPromotionRuleInstances(failedKey) ==
    SelectSeq(ClusterSeq(failedKey),
              LAMBDA k : instances[k].PromotionRule = "neutral")

\* A loop that assigns the candidate key at every match: the last instance
\* of the list among those matching, Nil when there is none.
LastMatch(list, matching) ==
    LET hits == {i \in DOMAIN list : list[i] \in matching}
    IN  IF hits = {} THEN Nil
        ELSE list[CHOOSE i \in hits : \A j \in hits : j <= i]

SameDCAndEnv(a, b) ==
    /\ instances[a].DataCenter = instances[b].DataCenter
    /\ instances[a].PhysicalEnvironment = instances[b].PhysicalEnvironment

\* SuggestReplacementForPromotedReplica's search among the marked candidates:
\* the candidate key it holds before it looks at the neutral instances, or
\* "keep" when it returns the promoted replica with no action required.
SuggestAmongCandidates(deadKey, deadReadable, promoted, candidateKey, under) ==
    LET cands == ReadClusterCandidateInstances(deadKey)
        isCand == \E i \in DOMAIN cands : cands[i] = promoted
        take(c) == canTakeOverPromotedServerAsMaster(c, promoted, under)
        k2 == IF deadReadable
                THEN LastMatch(cands, {c \in Range(cands) :
                         take(c) /\ SameDCAndEnv(c, deadKey)})
                ELSE Nil
        k4 == LastMatch(cands, {c \in Range(cands) :
                  take(c) /\ SameDCAndEnv(promoted, c)})
        k5 == LastMatch(cands, {c \in Range(cands) :
                  take(c) /\
                      MasterFailoverGeographicConstraintSatisfied(deadKey, c)})
    IN  IF candidateKey # Nil THEN candidateKey
        ELSE IF deadReadable /\ isCand /\ SameDCAndEnv(promoted, deadKey)
          THEN "keep"
        ELSE IF k2 # Nil THEN k2
        ELSE IF isCand /\
                MasterFailoverGeographicConstraintSatisfied(deadKey, promoted)
          THEN "keep"
        ELSE IF k4 # Nil THEN k4
        ELSE k5

\* SuggestReplacementForPromotedReplica, given whether the dead instance's
\* record could be read and the instances that replicate from the promoted
\* replica: the replacement, whether action is required, and whether the
\* function faults on a nil dead instance.
SuggestReplacementForPromotedReplica(deadKey, deadReadable, promoted, candidateKey, under) ==
    LET k5 == SuggestAmongCandidates(deadKey, deadReadable, promoted,
                                     candidateKey, under)
        neutrals == ReadClusterNeutralPromotionRuleInstances(deadKey)
        take(c) == canTakeOverPromotedServerAsMaster(c, promoted, under)
        keepSearching ==
            \/ ~MasterFailoverGeographicConstraintSatisfied(deadKey, promoted)
            \/ instances[promoted].PromotionRule = "prefer_not"
        faults == /\ k5 = Nil
                  /\ keepSearching
                  /\ ~deadReadable
                  /\ \E i \in DOMAIN neutrals : take(neutrals[i])
        k6 == LastMatch(neutrals, {c \in Range(neutrals) :
                  take(c) /\ SameDCAndEnv(deadKey, c)})
        k7 == LastMatch(neutrals, {c \in Range(neutrals) :
                  take(c) /\ SameDCAndEnv(promoted, c)})
        k8 == LastMatch(neutrals, {c \in Range(neutrals) :
                  take(c) /\
                      MasterFailoverGeographicConstraintSatisfied(deadKey, c)})
        final == IF k5 # Nil \/ ~keepSearching THEN k5
                 ELSE IF k6 # Nil THEN k6
                 ELSE IF k7 # Nil THEN k7
                 ELSE k8
    IN  IF k5 = "keep"
          THEN [replacement |-> promoted, actionRequired |-> FALSE,
                faults |-> FALSE]
        ELSE IF faults
          THEN [replacement |-> Nil, actionRequired |-> FALSE, faults |-> TRUE]
        ELSE IF final = Nil \/ final = promoted
          THEN [replacement |-> promoted, actionRequired |-> FALSE,
                faults |-> FALSE]
        ELSE [replacement |-> final, actionRequired |-> TRUE, faults |-> FALSE]

\* replacePromotedReplicaWithCandidate: the promoted instance it returns,
\* whether it returns an error, the postponed functions it adds, and the
\* audit steps; readError and takeMasterError are the outcomes of reading the
\* replacement's record and of inst.TakeMaster.
replacePromotedReplicaWithCandidate(deadKey, deadReadable, promoted, candidateKey, under, readError, takeMasterError) ==
    LET s == SuggestReplacementForPromotedReplica(deadKey, deadReadable,
                                                  promoted, candidateKey, under)
        keep(err) == [promoted |-> promoted, err |-> err, postponed |-> 0,
                      faults |-> FALSE, trace |-> <<>>]
    IN  IF s.faults THEN [keep(FALSE) EXCEPT !.faults = TRUE]
        ELSE IF ~s.actionRequired THEN keep(FALSE)
        ELSE IF readError THEN keep(TRUE)
        ELSE IF MasterKeyEquals(s.replacement, promoted, under)
          THEN IF takeMasterError
                 THEN [keep(TRUE) EXCEPT
                          !.trace = <<Failed(Ev("take-master",
                                                s.replacement))>>]
                 ELSE [promoted |-> s.replacement, err |-> FALSE,
                       postponed |-> 1, faults |-> FALSE,
                       trace |-> <<Ev("take-master", s.replacement)>>]
          ELSE keep(FALSE)

\* ----------------------------------------------------------------- dispatch

IdleLoc ==
    [entry |-> "", key |-> Nil, code |-> "NoProblem", inGrace |-> FALSE,
     class |-> "none", actionable |-> FALSE, force |-> FALSE,
     skip |-> FALSE, raft |-> "off", disabled |-> FALSE, policy |-> TRUE,
     candidate |-> Nil, outcome |-> "idle", attempted |-> FALSE,
     returned |-> FALSE, err |-> FALSE, rec |-> NewTopologyRecovery(0),
     promoted |-> Nil, lost |-> {}, resolves |-> FALSE, trace |-> <<>>]

\* The values a collaborator's answer is drawn from: any when the scenario
\* has faults, the nominal one otherwise.
May(nominal) == IF scenario.faults THEN BOOLEAN ELSE {nominal}

\* The values of an answer that is asked for only when asked holds.
When(asked, nominal) == IF asked THEN May(nominal) ELSE {nominal}

\* An unrecovered panic ends the process, and every dispatch with it.
NoPanic == \A q \in Procs : pc[q] # "panic"

\* cache.Get: whether the cache holds an item of the key that has not
\* expired at instant now; an item lives through its expiration instant.
Found(cache, key, now) ==
    \E item \in cache : item.key = key /\ now <= item.expiration

\* cache.Set with the cache's default expiration d: the item replaces any
\* other of the key.
Set(cache, key, now, d) ==
    {item \in cache : item.key # key} \cup
        {[key |-> key, expiration |-> now + d]}

\* No emergency operation run or spawned yet.
NoEmergency == [restart |-> {}, grace |-> {}, spawned |-> {}, restarted |-> {}]

\* A variant of isInEmergencyOperationGracefulPeriod that finds no instance
\* in its grace period.
isInNoGracefulPeriod(instanceKey) == FALSE

\* isInEmergencyOperationGracefulPeriod: whether
\* emergencyOperationGracefulPeriodMap holds the instance.
isInEmergencyOperationGracefulPeriod(instanceKey) ==
    Found(emergency.grace, instanceKey, clock)

\* The goroutine runEmergentOperations spawns that restarts replication on
\* the replicas of the analyzed instance.
SpawnedBy(code, key) ==
    IF code = "UnreachableMasterWithLaggingReplicas"
      THEN {[op |-> "replicas", key |-> key]} ELSE {}

\* runEmergentOperations: the codes that start an emergency probe.
runEmergentOperations(code) ==
    IF code \in {"DeadMasterAndSlaves", "UnreachableMaster",
                 "UnreachableMasterWithLaggingReplicas",
                 "AllMasterSlavesNotReplicating",
                 "AllMasterSlavesNotReplicatingOrDead",
                 "FirstTierSlaveFailingToConnectToMaster"}
      THEN <<Ev("probes", code)>>
      ELSE <<>>

\* A variant of RegistrationFlags that never asks for the recency test.
RegistrationFlagsIgnoringRecency(forceInstanceRecovery) ==
    [failIfActive |-> ~forceInstanceRecovery, failIfRecent |-> FALSE]

\* The arguments AttemptRecoveryRegistration is called with:
\* failIfFailedInstanceInActiveRecovery and failIfClusterInActiveRecovery.
RegistrationFlags(forceInstanceRecovery) ==
    [failIfActive |-> ~forceInstanceRecovery,
     failIfRecent |-> ~forceInstanceRecovery]

\* The first test of each checkAndRecover function: the cluster's automated
\* recovery policy, unless forced.
PolicyGate(forceInstanceRecovery, hasAutomatedRecovery) ==
    forceInstanceRecovery \/ hasAutomatedRecovery

\* The recover.*.start counter of an executor.
StartCounter(class) ==
    CASE class = "master" -> "dead_master.start"
      [] class = "intermediate" -> "dead_intermediate_master.start"
      [] OTHER -> "dead_co_master.start"

\* The dispatch returns without a recovery.
Return(p, l, outcome, err) ==
    /\ pc' = [pc EXCEPT ![p] = "done"]
    /\ loc' = [loc EXCEPT ![p] = [l EXCEPT !.outcome = outcome, !.err = err]]
    /\ UNCHANGED <<recoveries, counters, pending>>

\* The checkAndRecover function up to the registration, and the registration.
Register(p, l) ==
    LET flags == RegistrationFlags(l.force) IN
    IF RegistrationRefused(recoveries, l.key, flags.failIfActive,
                           flags.failIfRecent, clock)
      THEN Return(p, l, "refused", FALSE)
      ELSE /\ recoveries' =
                  AttemptRecoveryRegistration(recoveries, l.key, l.force, clock)
           /\ counters' = [counters EXCEPT ![StartCounter(l.class)] = @ + 1]
           /\ pending' = pending + 1
           /\ pc' = [pc EXCEPT ![p] = "registered"]
           /\ loc' = [loc EXCEPT ![p] =
                  [l EXCEPT !.outcome = "registered",
                            !.rec = NewTopologyRecovery(Len(recoveries) + 1),
                            !.trace = Append(@, Ev("register", l.key))]]

\* The values a gate's input is drawn from: any when the scenario closes
\* gates, the nominal one otherwise.
Gate(nominal) == IF scenario.gates THEN BOOLEAN ELSE {nominal}

\* A variant of RecoveryDisabledGate that is never closed.
RecoveryDisabledGateOpen(forceInstanceRecovery, disabled) == FALSE

\* executeCheckAndRecoverFunction's test of IsRecoveryDisabled: whether the
\* dispatch returns on it.
RecoveryDisabledGate(forceInstanceRecovery, disabled) ==
    disabled /\ ~forceInstanceRecovery

\* executeCheckAndRecoverFunction from the recovery-disabled gate on; the
\* dispatch keeps what IsRecoveryDisabled and the cluster's policy flag
\* answered.
Gates(p, l0) ==
    \E disabled \in Gate(FALSE) :
        LET l == [l0 EXCEPT !.disabled = disabled] IN
        IF RecoveryDisabledGate(l.force, disabled)
          THEN Return(p, l, "disabled", FALSE)
          ELSE IF l.class = "generic"
            THEN Return(p, l, "generic", FALSE)
            ELSE \E hasAutomatedRecovery \in Gate(TRUE) :
                   IF PolicyGate(l.force, hasAutomatedRecovery)
                     THEN Register(p, [l EXCEPT
                                          !.policy = hasAutomatedRecovery])
                     ELSE Return(p, [l EXCEPT
                                        !.policy = hasAutomatedRecovery],
                                 "policy", FALSE)

\* A variant of DetectionErrorReturns under which the dispatch goes on
\* whatever the detection hooks returned.
DetectionErrorIgnored(registrationSuccess, err) == FALSE

\* executeCheckAndRecoverFunction's test of the error that
\* checkAndExecuteFailureDetectionProcesses returned: whether the dispatch
\* returns on it.
DetectionErrorReturns(registrationSuccess, err) == err

\* checkAndExecuteFailureDetectionProcesses, and what
\* executeCheckAndRecoverFunction makes of its result.
Detection(p, l) ==
    \E registered \in May(TRUE) :
        IF ~registered \/ l.skip
          THEN Gates(p, [l EXCEPT !.trace =
                   IF registered THEN Append(@, Ev("detection", l.key)) ELSE @])
          ELSE \E fails \in HookFailures("OnFailureDetectionProcesses") :
                 LET h == HookEv("OnFailureDetectionProcesses", fails, TRUE)
                     l2 == [l EXCEPT !.trace =
                               @ \o <<Ev("detection", l.key), h>>]
                 IN  IF DetectionErrorReturns(registered, h.err)
                       THEN Return(p, l2, "detection-error", TRUE)
                       ELSE Gates(p, l2)

\* A variant of NonLeader that takes every node for the leader.
NonLeaderIgnored(raft) == FALSE

\* executeCheckAndRecoverFunction's raft test: whether raft is enabled and
\* this node is not the leader; raft is "off" (not enabled), "leader" or
\* "follower".
NonLeader(raft) == raft = "follower"

\* The callers of executeCheckAndRecoverFunction: CheckAndRecover without
\* and with a specific instance, and ForceExecuteRecovery.
Entries == {"CheckAndRecover", "CheckAndRecoverSpecific",
            "ForceExecuteRecovery"}

\* The forceInstanceRecovery argument each caller passes.
ForceOf(entry) == entry # "CheckAndRecover"

\* executeCheckAndRecoverFunction up to the executor's registration of the
\* recovery, as dispatch p; entry names the caller, which passes
\* forceInstanceRecovery.
executeCheckAndRecoverFunction(p, entry, key, code, candidate, skip, raft) ==
    /\ emergency' = [emergency EXCEPT !.spawned = @ \cup SpawnedBy(code, key)]
    /\ \E inGrace \in
           IF code \in {"DeadMaster", "DeadMasterAndSomeSlaves"}
             THEN May(isInEmergencyOperationGracefulPeriod(key))
             ELSE {FALSE} :
        LET route == getCheckAndRecoverFunction(code, inGrace)
            l == [IdleLoc EXCEPT !.entry = entry, !.key = key,
                                 !.code = code, !.inGrace = inGrace,
                                 !.class = route.fn,
                                 !.actionable = route.actionable,
                                 !.force = ForceOf(entry), !.skip = skip,
                                 !.raft = raft,
                                 !.candidate = IF route.fn = "master"
                                                 THEN candidate ELSE Nil,
                                 !.trace = runEmergentOperations(code)]
        IN  IF route.fn = "none"
              THEN Return(p, l, "no-route", FALSE)
              ELSE IF NonLeader(raft)
                THEN Return(p, l, "non-leader", FALSE)
                ELSE Detection(p, l)

\* A call of executeCheckAndRecoverFunction by one of its callers, on an
\* analysis entry and with arguments of the scenario.
Dispatch(p) ==
    /\ p \in scenario.procs
    /\ NoPanic
    /\ pc[p] = "idle"
    /\ \E key \in scenario.keys, code \in scenario.codes,
          entry \in scenario.entries, skip \in scenario.skips,
          raft \in scenario.rafts :
        \E candidate \in IF code \in {"DeadMaster", "DeadMasterAndSomeSlaves"}
                           THEN {Nil} \cup
                                (replicas[key] \cap scenario.candidates)
                           ELSE {Nil} :
            executeCheckAndRecoverFunction(p, entry, key, code, candidate,
                                           skip, raft)
    /\ UNCHANGED <<call, config, processes, instances,
                   replicas, clock, scenario>>

\* ------------------------------------------------------------- the rewirer

\* What a regroup of the replicas in pool may return: the promoted replica
\* (Nil: none), the lost replicas (those not regrouped plus those that cannot
\* replicate), and whether it returns an error.
RegroupOutcomes(pool) ==
    IF scenario.faults \/ pool = {}
      THEN {[promoted |-> pr, lost |-> lo, err |-> er] :
               pr \in pool \cup {Nil}, lo \in SUBSET pool, er \in BOOLEAN}
      ELSE {[promoted |-> pr, lost |-> {}, err |-> FALSE] : pr \in pool}

\* The recovery types the analysis entry's topology flags select.
RecoveryTypes ==
    IF scenario.faults
      THEN {"MasterRecoveryGTID", "MasterRecoveryPseudoGTID",
            "MasterRecoveryBinlogServer"}
      ELSE {"MasterRecoveryGTID"}

\* A lost replica is one that was not reattached below the promoted one.
RegroupConsistent(o) == o.promoted \notin o.lost

\* The instances that replicate from the promoted replica after a regroup.
Regrouped(pool, o) ==
    IF o.promoted = Nil THEN {} ELSE (pool \ o.lost) \ {o.promoted}

\* Whether the errors drawn for replacePromotedReplicaWithCandidate are the
\* answers of calls it makes: it reads the replacement's record only when
\* action is required, and calls inst.TakeMaster only once it has read it.
Asked(s, readError, takeMasterError) ==
    /\ readError => s.actionRequired
    /\ takeMasterError => s.actionRequired /\ ~readError

\* ------------------------------------------------------------- dead master

\* recoverDeadMaster's promotedReplicaIsIdeal: whether the callback sets
\* postponedAll for the promoted replica.
promotedReplicaIsIdeal(failedKey, promoted, candidateKey) ==
    /\ promoted # Nil
    /\ promoted # candidateKey
    /\ candidateKey = Nil
    /\ instances[promoted].PromotionRule \in {"must", "prefer"}
    /\ SameDCAndEnv(promoted, failedKey)

\* checkAndRecoverDeadMaster's overrideMasterPromotion: the promotion that
\* stands (Nil: cancelled) and the error; waitError is the outcome of
\* inst.WaitForSQLThreadUpToDate.
overrideMasterPromotion(failedKey, promoted, err, sqlUpToDate, waitError) ==
    IF promoted = Nil THEN [promoted |-> Nil, err |-> err, gate |-> ""]
    ELSE IF ~MasterFailoverGeographicConstraintSatisfied(failedKey, promoted)
      THEN [promoted |-> Nil, err |-> TRUE, gate |-> "geographic"]
    ELSE IF config["FailMasterPromotionIfSQLThreadNotUpToDate"] /\ ~sqlUpToDate
      THEN [promoted |-> Nil, err |-> TRUE, gate |-> "sql-thread-fail"]
    ELSE IF /\ config["DelayMasterPromotionIfSQLThreadNotUpToDate"]
            /\ ~sqlUpToDate
            /\ waitError
      THEN [promoted |-> Nil, err |-> TRUE, gate |-> "sql-thread-delay"]
    ELSE [promoted |-> promoted, err |-> err, gate |-> ""]

\* Whether the configuration has the executors look at the promoted
\* replica's SQL thread.
ChecksSQLThread ==
    \/ config["FailMasterPromotionIfSQLThreadNotUpToDate"]
    \/ config["DelayMasterPromotionIfSQLThreadNotUpToDate"]

\* The audit step of an override gate that cancelled the promotion.
GateEv(g) == IF g.gate = "" THEN <<>> ELSE <<Failed(Ev("gate", g.gate))>>

\* recoverDeadMaster and overrideMasterPromotion done: the dispatch stands
\* before resolveRecovery.
MasterRecovered(p, l, rec, promoted, lost, err, trace) ==
    \E sqlUpToDate \in When(promoted # Nil /\ ChecksSQLThread, TRUE),
       waitError \in When(promoted # Nil /\ ChecksSQLThread, FALSE) :
        LET g == overrideMasterPromotion(l.key, promoted, err, sqlUpToDate,
                                        waitError)
        IN  /\ pc' = [pc EXCEPT ![p] = "recovered"]
            /\ loc' = [loc EXCEPT ![p] =
                   [l EXCEPT !.rec = [rec EXCEPT !.LostReplicas = @ \cup lost],
                             !.promoted = g.promoted, !.lost = lost,
                             !.err = g.err, !.resolves = TRUE,
                             !.trace = @ \o trace \o GateEv(g)]]

\* recoverDeadMaster from the regroup's return on; idealCalled tells whether
\* the regroup consulted promotedReplicaIsIdeal, moved counts the binlog
\* servers whose move recoverDeadMasterInBinlogServerTopology postpones.
MasterRegrouped(p, l, rec, rtype, o, idealCalled, moved) ==
    LET under == IF rtype = "MasterRecoveryBinlogServer" THEN {}
                 ELSE Regrouped(replicas[l.key], o)
        ideal == /\ idealCalled
                 /\ promotedReplicaIsIdeal(l.key, o.promoted, l.candidate)
        rec1 == AddError(rec, o.err)
        detach == /\ o.promoted # Nil
                  /\ o.lost # {}
                  /\ config["DetachLostReplicasAfterMasterFailover"]
        rec2 == [rec1 EXCEPT !.Postponed =
                    @ + (IF idealCalled /\ o.promoted # Nil /\
                            (ideal \/ o.promoted = l.candidate) THEN 1 ELSE 0)
                      + (IF detach THEN 1 ELSE 0) + moved]
        tr == <<Ev("rewire", rtype), Ev("regrouped", o.promoted),
                Ev("downtime", l.key)>>
    IN  IF o.promoted # Nil /\ ~ideal
          THEN \E deadReadable \in May(TRUE), readError \in May(FALSE),
                  takeMasterError \in May(FALSE) :
                 LET r == replacePromotedReplicaWithCandidate(
                              l.key, deadReadable, o.promoted, l.candidate,
                              under, readError, takeMasterError)
                     s == SuggestReplacementForPromotedReplica(
                              l.key, deadReadable, o.promoted, l.candidate,
                              under)
                 IN  IF ~Asked(s, readError, takeMasterError)
                       THEN FALSE
                     ELSE IF r.faults
                       THEN /\ pc' = [pc EXCEPT ![p] = "panic"]
                            /\ loc' = [loc EXCEPT ![p] =
                                   [l EXCEPT !.rec = rec2, !.lost = o.lost,
                                             !.trace = @ \o tr]]
                       ELSE MasterRecovered(p, l,
                                AddError([rec2 EXCEPT !.Postponed =
                                             @ + r.postponed], r.err),
                                r.promoted, o.lost, r.err, tr \o r.trace)
          ELSE MasterRecovered(p, l, rec2, o.promoted, o.lost, o.err, tr)

\* checkAndRecoverDeadMaster from the registration to resolveRecovery:
\* recoverDeadMaster and the override gates.
RecoverDeadMaster(p) ==
    /\ NoPanic
    /\ pc[p] = "registered"
    /\ loc[p].class = "master"
    /\ LET l == loc[p]
           rec == [l.rec EXCEPT !.Type = "MasterRecovery"]
       IN  \E fails \in IF l.skip THEN {{}}
                          ELSE HookFailures("PreFailoverProcesses") :
             LET h == HookEv("PreFailoverProcesses", fails, TRUE)
                 l1 == IF l.skip THEN l
                       ELSE [l EXCEPT !.trace = Append(@, h)]
             IN  IF PreFailoverAborts(l.skip, h)
                   THEN MasterRecovered(p, l1, AddError(rec, TRUE), Nil, {},
                                        TRUE, <<>>)
                   ELSE \E rtype \in RecoveryTypes,
                           o \in RegroupOutcomes(replicas[l.key]),
                           idealCalled \in May(TRUE), moved \in 0..1 :
                          /\ RegroupConsistent(o)
                          /\ IF rtype = "MasterRecoveryBinlogServer"
                               THEN /\ o.lost = {}
                                    /\ ~idealCalled
                                    /\ moved = 1 => o.promoted # Nil /\ ~o.err
                               ELSE /\ moved = 0
                                    /\ idealCalled => o.promoted # Nil
                          /\ MasterRegrouped(p, l1,
                                 [rec EXCEPT !.RecoveryType = rtype],
                                 rtype, o, idealCalled, moved)
    /\ UNCHANGED <<call, emergency, config, processes, instances,
                   replicas, clock, recoveries,
                   counters, pending, scenario>>

\* ---------------------------------------------------------- dead co-master

\* checkAndRecoverDeadCoMaster's call of RecoverDeadCoMaster returned: the
\* dispatch stands before resolveRecovery.
CoMasterRecovered(p, l, rec, promoted, lost, err, trace) ==
    /\ pc' = [pc EXCEPT ![p] = "recovered"]
    /\ loc' = [loc EXCEPT ![p] =
           [l EXCEPT !.rec = rec, !.promoted = promoted, !.lost = lost,
                     !.err = err, !.resolves = TRUE, !.trace = @ \o trace]]

\* RecoverDeadCoMaster from the promotion's check against
\* mustPromoteOtherCoMaster on.
CoMasterPromoted(p, l, rec, promoted0, lost, err0, must, trace) ==
    LET other == MasterKeyOf(l.key)
        refused == promoted0 # Nil /\ must /\ promoted0 # other
        promoted == IF refused THEN Nil ELSE promoted0
        rec1 == AddError(rec, refused)
        detachLost == /\ promoted # Nil
                      /\ lost # {}
                      /\ config["DetachLostReplicasAfterMasterFailover"]
    IN  \E waitError \in When(promoted # Nil /\
                 config["DelayMasterPromotionIfSQLThreadNotUpToDate"], FALSE),
           detachError \in When(promoted # Nil /\ promoted # other, FALSE) :
          IF /\ promoted # Nil
             /\ config["DelayMasterPromotionIfSQLThreadNotUpToDate"]
             /\ waitError
            THEN CoMasterRecovered(p, l, rec1, promoted, lost, TRUE, trace)
            ELSE LET rec2 == IF promoted = Nil THEN rec1
                             ELSE [rec1 EXCEPT !.ParticipatingInstanceKeys =
                                                   @ \cup {promoted}]
                     detach == promoted # Nil /\ promoted # other
                     rec3 == AddError(rec2, detach /\ detachError)
                     rec4 == [rec3 EXCEPT !.Postponed =
                                 @ + (IF detachLost THEN 1 ELSE 0)]
                     tr == (IF detach
                              THEN <<[Ev("detach-master-host", promoted)
                                        EXCEPT !.err = detachError]>>
                              ELSE <<>>) \o <<Ev("downtime", l.key)>>
                 IN  CoMasterRecovered(p, l, rec4, promoted, lost,
                         IF detach THEN detachError ELSE err0, trace \o tr)

\* A variant of mustPromoteOtherCoMaster under which any server may be
\* promoted.
mayPromoteAnyServer(other) == FALSE

\* RecoverDeadCoMaster's mustPromoteOtherCoMaster: the operator requires it,
\* or the other co-master is writable.
mustPromoteOtherCoMaster(other) ==
    \/ config["CoMasterRecoveryMustPromoteOtherCoMaster"]
    \/ ~instances[other].ReadOnly

\* RecoverDeadCoMaster from the regroup's return on.
CoMasterRegrouped(p, l, rec, rtype, o) ==
    LET other == MasterKeyOf(l.key)
        pool == replicas[l.key] \cup {other}
        must == mustPromoteOtherCoMaster(other)
        rec1 == AddError(rec, o.err)
        tr == <<Ev("rewire", rtype), Ev("regrouped", o.promoted)>>
    IN  IF o.promoted = Nil
          THEN CoMasterPromoted(p, l, rec1, Nil, o.lost, o.err, must, tr)
          ELSE \E deadReadable \in May(TRUE), readError \in May(FALSE),
                  takeMasterError \in May(FALSE) :
                 LET r == replacePromotedReplicaWithCandidate(
                              l.key, deadReadable, o.promoted,
                              IF must THEN other ELSE Nil,
                              Regrouped(pool, o), readError, takeMasterError)
                     s == SuggestReplacementForPromotedReplica(
                              l.key, deadReadable, o.promoted,
                              IF must THEN other ELSE Nil, Regrouped(pool, o))
                     rec2 == [rec1 EXCEPT !.ParticipatingInstanceKeys =
                                              @ \cup {o.promoted}]
                 IN  IF ~Asked(s, readError, takeMasterError)
                       THEN FALSE
                     ELSE IF r.faults
                       THEN /\ pc' = [pc EXCEPT ![p] = "panic"]
                            /\ loc' = [loc EXCEPT ![p] =
                                   [l EXCEPT !.rec = rec2, !.lost = o.lost,
                                             !.trace = @ \o tr]]
                       ELSE CoMasterPromoted(p, l,
                                AddError([rec2 EXCEPT !.Postponed =
                                             @ + r.postponed], r.err),
                                r.promoted, o.lost, r.err, must,
                                tr \o r.trace)

\* checkAndRecoverDeadCoMaster from the registration to resolveRecovery:
\* RecoverDeadCoMaster.
RecoverDeadCoMaster(p) ==
    /\ NoPanic
    /\ pc[p] = "registered"
    /\ loc[p].class = "comaster"
    /\ LET l == loc[p]
           rec == [l.rec EXCEPT !.Type = "CoMasterRecovery"]
       IN  \E found \in May(TRUE) :
             IF ~found
               THEN CoMasterRecovered(p, l, AddError(rec, TRUE), Nil, {},
                                      TRUE,
                                      <<Failed(Ev("read", MasterKeyOf(l.key)))>>)
               ELSE \E fails \in IF l.skip THEN {{}}
                                  ELSE HookFailures("PreFailoverProcesses") :
                      LET h == HookEv("PreFailoverProcesses", fails, TRUE)
                          l1 == IF l.skip THEN l
                                ELSE [l EXCEPT !.trace = Append(@, h)]
                      IN  IF PreFailoverAborts(l.skip, h)
                            THEN CoMasterRecovered(p, l1, AddError(rec, TRUE),
                                                   Nil, {}, TRUE, <<>>)
                            ELSE \E rtype \in RecoveryTypes \
                                                {"MasterRecoveryBinlogServer"},
                                    o \in RegroupOutcomes(
                                             replicas[l.key] \cup
                                                 {MasterKeyOf(l.key)}) :
                                   /\ RegroupConsistent(o)
                                   /\ CoMasterRegrouped(p, l1, rec, rtype, o)
    /\ UNCHANGED <<call, emergency, config, processes, instances,
                   replicas, clock, recoveries,
                   counters, pending, scenario>>

\* -------------------------------------------------- dead intermediate master

\* What inst.RelocateReplicas may return: whether any replica was relocated,
\* whether it returns an error, and the number of per-replica errors.
RelocateOutcomes ==
    IF scenario.faults THEN [moved : BOOLEAN, err : BOOLEAN, errs : 0..1]
                       ELSE [moved : {TRUE}, err : {FALSE}, errs : {0}]

\* relocateReplicasToCandidateSibling: whether it resolves the recovery.
SiblingTakesOver(r) == r.moved /\ ~r.err /\ r.errs = 0

\* The audit step of a relocation under target: whether the plan placed any
\* replica (n is 1 when it did), and whether it failed to settle the recovery.
RelocateEv(plan, target, moved, ok) ==
    [Ev(plan, target) EXCEPT !.n = IF moved THEN 1 ELSE 0, !.err = ~ok]

\* RecoverDeadIntermediateMaster returned: the dispatch stands before
\* resolveRecovery when the executor reaches it (resolves), or past the
\* executor when it returned early; only an early return returns an error.
IntermediateMasterRecovered(p, l, rec, successor, resolves, trace) ==
    /\ pc' = [pc EXCEPT ![p] = "recovered"]
    /\ loc' = [loc EXCEPT ![p] =
           [l EXCEPT !.rec = rec, !.promoted = successor, !.err = ~resolves,
                     !.resolves = resolves, !.trace = @ \o trace]]

\* Plan D: relocate whatever is left below the failed instance's master.
PlanD(p, l, rec, successor, trace) ==
    \E d \in RelocateOutcomes :
        LET master == MasterKeyOf(l.key)
            rec1 == [rec EXCEPT !.AllErrors = @ + d.errs,
                                !.ParticipatingInstanceKeys = @ \cup {master}]
        IN  IF d.moved
              THEN IntermediateMasterRecovered(p, l, rec1,
                       IF successor = Nil THEN master ELSE successor, TRUE,
                       Append(trace, RelocateEv("plan-d", master, TRUE, TRUE)))
              ELSE IntermediateMasterRecovered(p, l, AddError(rec1, TRUE),
                       Nil, TRUE,
                       Append(trace, RelocateEv("plan-d", master, FALSE, FALSE)))

\* Plans B and C: regroup the replicas, then try a sibling of another data
\* center.
PlanBC(p, l, rec, sibling, trace) ==
    \E o \in RegroupOutcomes(replicas[l.key]) :
        /\ RegroupConsistent(o)
        /\ LET rec1 == AddError(rec, o.err)
               rec2 == IF o.promoted = Nil THEN rec1
                       ELSE [rec1 EXCEPT !.ParticipatingInstanceKeys =
                                             @ \cup {o.promoted}]
               flawless == o.promoted # Nil /\ o.lost = {} /\ ~o.err
               successor == IF flawless THEN o.promoted ELSE Nil
               tr == Append(trace, RelocateEv("plan-b", l.key,
                             Regrouped(replicas[l.key], o) # {}, flawless))
           IN  IF sibling # Nil /\
                  instances[sibling].DataCenter # instances[l.key].DataCenter
                 THEN \E c \in RelocateOutcomes :
                        LET rec3 == [rec2 EXCEPT
                                       !.AllErrors = @ + c.errs,
                                       !.ParticipatingInstanceKeys =
                                           @ \cup {sibling}]
                            tr3 == Append(tr, RelocateEv("plan-c", sibling, c.moved,
                                              SiblingTakesOver(c)))
                        IN  IF SiblingTakesOver(c)
                              THEN IntermediateMasterRecovered(p, l, rec3,
                                       sibling, TRUE, tr3)
                              ELSE PlanD(p, l, rec3, successor, tr3)
                 ELSE PlanD(p, l, rec2, successor, tr)

\* checkAndRecoverDeadIntermediateMaster from the registration to the return
\* of RecoverDeadIntermediateMaster, short of its resolveRecovery.
RecoverDeadIntermediateMaster(p) ==
    /\ NoPanic
    /\ pc[p] = "registered"
    /\ loc[p].class = "intermediate"
    /\ LET l == loc[p]
           rec == [l.rec EXCEPT !.Type = "IntermediateMasterRecovery"]
       IN  \E fails \in IF l.skip THEN {{}}
                          ELSE HookFailures("PreFailoverProcesses"),
              readError \in May(FALSE) :
             LET h == HookEv("PreFailoverProcesses", fails, TRUE)
                 l1 == IF l.skip THEN l
                       ELSE [l EXCEPT !.trace = Append(@, h)]
             IN  IF PreFailoverAborts(l.skip, h) \/ readError
                   THEN IntermediateMasterRecovered(p, l1,
                            AddError(rec, TRUE), Nil, FALSE,
                            IF PreFailoverAborts(l.skip, h) THEN <<>>
                            ELSE <<Failed(Ev("read", l.key))>>)
                   ELSE \E sibling \in {SiblingOf(l.key)} \cup
                                       (IF scenario.faults THEN {Nil} ELSE {}) :
                          IF sibling # Nil /\
                             instances[sibling].DataCenter =
                                 instances[l.key].DataCenter
                            THEN \E a \in RelocateOutcomes :
                                   LET rec1 == [rec EXCEPT
                                          !.AllErrors = @ + a.errs,
                                          !.ParticipatingInstanceKeys =
                                              @ \cup {sibling}]
                                       tr == <<RelocateEv("plan-a", sibling,
                                                   a.moved,
                                                   SiblingTakesOver(a))>>
                                   IN  IF SiblingTakesOver(a)
                                         THEN IntermediateMasterRecovered(p,
                                                  l1, rec1, sibling, TRUE, tr)
                                         ELSE PlanBC(p, l1, rec1, sibling, tr)
                            ELSE PlanBC(p, l1, rec, sibling, <<>>)
    /\ UNCHANGED <<call, emergency, config, processes, instances,
                   replicas, clock, recoveries,
                   counters, pending, scenario>>

\* --------------------------------------------------- resolution and return

\* resolveRecovery, as the executor calls it: the in-memory record takes the
\* successor, and the store's record is closed.
Resolve(p) ==
    /\ NoPanic
    /\ pc[p] = "recovered"
    /\ loc[p].resolves
    /\ LET l == loc[p]
           rec == resolveRecovery(l.rec, l.promoted)
       IN  /\ recoveries' = writeResolveRecovery(recoveries, rec.Id,
                                                 rec.SuccessorKey, clock)
           /\ loc' = [loc EXCEPT ![p] =
                  [l EXCEPT !.rec = rec,
                            !.trace = Append(@, Ev("resolve", l.promoted))]]
           /\ pc' = [pc EXCEPT ![p] = "resolved"]
    /\ UNCHANGED <<call, emergency, config, processes, instances,
                   replicas, clock, counters,
                   pending, scenario>>

\* The recover.*.success and recover.*.fail counters of an executor.
SuccessCounter(class) ==
    CASE class = "master" -> "dead_master.success"
      [] class = "intermediate" -> "dead_intermediate_master.success"
      [] OTHER -> "dead_co_master.success"

\* A variant of FailureCounter that names the executor's success counter.
FailureCounterMiscounted(class) == SuccessCounter(class)

FailureCounter(class) ==
    CASE class = "master" -> "dead_master.fail"
      [] class = "intermediate" -> "dead_intermediate_master.fail"
      [] OTHER -> "dead_co_master.fail"

\* The hook batch an executor runs after a successful recovery.
PostBatch(class) ==
    IF class = "intermediate" THEN "PostIntermediateMasterFailoverProcesses"
                              ELSE "PostMasterFailoverProcesses"

\* checkAndRecoverDeadCoMaster's test of the promoted replica's SQL thread,
\* after resolveRecovery.
CoMasterAborts(l, sqlUpToDate) ==
    /\ l.class = "comaster"
    /\ l.promoted # Nil
    /\ config["FailMasterPromotionIfSQLThreadNotUpToDate"]
    /\ ~sqlUpToDate

\* What the executor does of a successful recovery after resolveRecovery,
\* short of its hooks: the in-memory record and the audit steps.
Promote(l) ==
    LET apply == \/ config["ApplyMySQLPromotionAfterMasterFailover"]
                 \/ l.class = "master" /\ l.entry = "GracefulMasterTakeover"
        detach == /\ l.class = "master"
                  /\ config["MasterFailoverDetachReplicaMasterHost"]
        reset == l.class # "master" /\ ~l.skip
        tr == (IF l.class = "master" /\ apply
                 THEN <<Ev("reset-slave", l.promoted)>> ELSE <<>>)
              \o (IF l.class # "intermediate" /\ apply
                    THEN <<Ev("set-read-only", l.promoted)>> ELSE <<>>)
              \o (IF l.class = "master"
                    THEN <<Ev("kv", l.promoted)>> ELSE <<>>)
    IN  [l EXCEPT !.rec = [@ EXCEPT
                     !.Postponed = @ + (IF detach THEN 1 ELSE 0),
                     !.SuccessorKey = IF reset THEN l.promoted ELSE @],
                  !.trace = @ \o tr]

\* A variant of HooksThenWait that drains the postponed functions first.
WaitThenHooks(hooks, drained) == drained \o hooks

\* The order of executeCheckAndRecoverFunction's last steps: the general
\* post-failover hooks, then TopologyRecovery.Wait, which drains the
\* postponed functions.
HooksThenWait(hooks, drained) == hooks \o drained

\* A variant of GeneralPostBatch that names PostFailoverProcesses whatever
\* the successor.
GeneralPostBatchOfSuccess(successorKey) == "PostFailoverProcesses"

\* The general hook batch executeCheckAndRecoverFunction runs for a recovery
\* with this successor.
GeneralPostBatch(successorKey) ==
    IF successorKey = Nil THEN "PostUnsuccessfulFailoverProcesses"
                          ELSE "PostFailoverProcesses"

\* A variant of RunsGeneralHooks under which the general hooks run whatever
\* skipProcesses.
RunsGeneralHooksAlways(skipProcesses) == TRUE

\* executeCheckAndRecoverFunction's test of skipProcesses before its general
\* hooks.
RunsGeneralHooks(skipProcesses) == ~skipProcesses

\* executeCheckAndRecoverFunction after the executor returned a record: the
\* general hooks, then the postponed functions.
Conclude(p, l) ==
    LET batch == GeneralPostBatch(l.rec.SuccessorKey)
    IN  \E fails \in IF l.skip THEN {{}} ELSE HookFailures(batch) :
          LET tr == HooksThenWait(
                        IF ~RunsGeneralHooks(l.skip) THEN <<>>
                        ELSE (IF l.rec.SuccessorKey = Nil THEN <<>>
                              ELSE <<Ev("end-downtime", l.rec.SuccessorKey)>>)
                             \o <<Discarded(HookEv(batch, fails, FALSE))>>,
                        <<[Ev("postponed", l.key) EXCEPT
                              !.n = l.rec.Postponed]>>)
          IN  /\ pc' = [pc EXCEPT ![p] = "done"]
              /\ loc' = [loc EXCEPT ![p] =
                     [l EXCEPT !.outcome = "recovered", !.attempted = TRUE,
                               !.returned = TRUE, !.trace = @ \o tr]]

\* The executor from resolveRecovery's return to its own return, and
\* executeCheckAndRecoverFunction from there to its return.
Finish(p) ==
    /\ NoPanic
    /\ pc[p] = IF loc[p].resolves THEN "resolved" ELSE "recovered"
    /\ pending' = pending - 1
    /\ LET l0 == loc[p]
           l == IF l0.class = "comaster"
                  THEN [l0 EXCEPT !.rec.LostReplicas = @ \cup l0.lost]
                  ELSE l0
       IN  \E sqlUpToDate \in When(l.class = "comaster" /\ l.promoted # Nil /\
                                    ChecksSQLThread, TRUE) :
             IF CoMasterAborts(l, sqlUpToDate)
               THEN /\ pc' = [pc EXCEPT ![p] = "done"]
                    /\ loc' = [loc EXCEPT ![p] =
                           [l EXCEPT !.outcome = "aborted", !.err = TRUE,
                                     !.trace = Append(@,
                                         Failed(Ev("gate", "sql-thread-fail")))]]
                    /\ UNCHANGED counters
               ELSE IF l.promoted # Nil
                 THEN /\ counters' = [counters EXCEPT
                                         ![SuccessCounter(l.class)] = @ + 1]
                      /\ \E fails \in IF l.skip THEN {{}}
                                        ELSE HookFailures(PostBatch(l.class)) :
                            Conclude(p,
                               IF l.skip THEN Promote(l)
                               ELSE [Promote(l) EXCEPT !.trace =
                                        Append(@, Discarded(
                                                   HookEv(PostBatch(l.class),
                                                          fails, FALSE)))])
                 ELSE /\ counters' = [counters EXCEPT
                                         ![FailureCounter(l.class)] = @ + 1]
                      /\ Conclude(p, l)
    /\ UNCHANGED <<call, emergency, config, processes, instances,
                   replicas, clock, recoveries,
                   scenario>>

\* The goroutine emergentlyRestartReplicationOnTopologyInstanceReplicas:
\* unless the instance's replicas were restarted recently, the instance's
\* grace period begins and a restart is spawned for each of its replicas.
EmergentlyRestartReplicationOnTopologyInstanceReplicas(key) ==
    /\ NoPanic
    /\ [op |-> "replicas", key |-> key] \in emergency.spawned
    /\ LET rest == emergency.spawned \ {[op |-> "replicas", key |-> key]} IN
       IF Found(emergency.restart, key, clock)
         THEN emergency' = [emergency EXCEPT !.spawned = rest]
         ELSE \E readError \in May(FALSE) :
                emergency' = [emergency EXCEPT
                    !.restart = Set(@, key, clock, RestartThrottle),
                    !.grace = Set(@, key, clock, GracePeriod),
                    !.spawned = rest \cup
                        (IF readError THEN {}
                         ELSE {[op |-> "instance", key |-> r] :
                                  r \in replicas[key]})]
    /\ UNCHANGED <<call, config, processes, instances, replicas, clock,
                   recoveries, counters, pending, scenario, pc, loc>>

\* The goroutine emergentlyRestartReplicationOnTopologyInstance: unless the
\* replica was restarted recently, its IO thread is restarted.
EmergentlyRestartReplicationOnTopologyInstance(key) ==
    /\ NoPanic
    /\ [op |-> "instance", key |-> key] \in emergency.spawned
    /\ LET rest == emergency.spawned \ {[op |-> "instance", key |-> key]} IN
       IF Found(emergency.restart, key, clock)
         THEN emergency' = [emergency EXCEPT !.spawned = rest]
         ELSE emergency' = [emergency EXCEPT
                  !.restart = Set(@, key, clock, RestartThrottle),
                  !.spawned = rest,
                  !.restarted = @ \cup {key}]
    /\ UNCHANGED <<call, config, processes, instances, replicas, clock,
                   recoveries, counters, pending, scenario, pc, loc>>

\* Time passes.
Tick ==
    /\ NoPanic
    /\ clock < scenario.horizon
    /\ clock' = clock + 1
    /\ UNCHANGED <<call, emergency, config, processes, instances,
                   replicas, recoveries,
                   counters, pending, scenario, pc, loc>>

\* ------------------------------------------------------------- entry points

\* No entry point called yet.
NoCall ==
    [op |-> "none", pc |-> "idle", specific |-> Nil, candidate |-> Nil,
     master |-> Nil, masters |-> 0, target |-> Nil, skip |-> FALSE, analysis |-> {},
     todo |-> {}, proc |-> 0, attempted |-> FALSE, recovery |-> FALSE, err |-> FALSE, trace |-> <<>>]

\* The first dispatch not yet started.
FreeProc ==
    CHOOSE p \in scenario.procs :
        pc[p] = "idle" /\ \A q \in scenario.procs : pc[q] = "idle" => p <= q

\* The caller hands executeCheckAndRecoverFunction its arguments: dispatch p
\* stands at the function's entry.
Called(p, entry, key, code, candidate, skip) ==
    /\ pc' = [pc EXCEPT ![p] = "called"]
    /\ loc' = [loc EXCEPT ![p] =
           [IdleLoc EXCEPT !.entry = entry, !.key = key, !.code = code,
                           !.candidate = candidate, !.skip = skip,
                           !.force = ForceOf(entry)]]

\* executeCheckAndRecoverFunction, called by an entry point, up to the
\* executor's registration of the recovery.
Enter(p) ==
    /\ NoPanic
    /\ pc[p] = "called"
    /\ \E raft \in scenario.rafts :
          executeCheckAndRecoverFunction(p, loc[p].entry, loc[p].key,
                                         loc[p].code, loc[p].candidate,
                                         loc[p].skip, raft)
    /\ UNCHANGED <<call, config, processes, instances,
                   replicas, clock, scenario>>

\* inst.GetReplicationAnalysis: the analyses it may return, at most one entry
\* per instance, each with its code and SkippableDueToDowntime.
ReplicationAnalyses ==
    {a \in SUBSET [key : scenario.keys, code : scenario.codes,
                   downtimed : BOOLEAN] :
        \A e, f \in a : e.key = f.key => e = f}

\* A variant of SkipsEntry that passes over no downtimed entry.
SkipsOnlyOtherInstances(e, specificInstance) ==
    specificInstance # Nil /\ e.key # specificInstance

\* CheckAndRecover's loop: whether it passes over analysis entry e.
SkipsEntry(e, specificInstance) ==
    \/ specificInstance # Nil /\ e.key # specificInstance
    \/ e.downtimed /\ specificInstance = Nil

\* CheckAndRecover up to its loop: it reads the analysis; noop is the --noop
\* flag of the command line.
CheckAndRecover ==
    /\ NoPanic
    /\ call.pc = "idle"
    /\ \E entry \in scenario.entries \cap
                      {"CheckAndRecover", "CheckAndRecoverSpecific"},
          specificInstance \in scenario.keys,
          candidateInstanceKey \in {Nil} \cup scenario.candidates,
          skipProcesses \in scenario.skips,
          noop \in Gate(FALSE), readError \in May(FALSE),
          analysis \in ReplicationAnalyses :
          LET c == [NoCall EXCEPT
                       !.op = "CheckAndRecover",
                       !.specific = IF entry = "CheckAndRecover"
                                      THEN Nil ELSE specificInstance,
                       !.candidate = candidateInstanceKey,
                       !.skip = skipProcesses \/ noop]
          IN  /\ entry = "CheckAndRecover" =>
                    specificInstance = CHOOSE k \in scenario.keys : TRUE
              /\ call' = IF readError
                           THEN [c EXCEPT !.pc = "returned", !.err = TRUE]
                           ELSE [c EXCEPT !.pc = "looping",
                                          !.analysis = analysis,
                                          !.todo = analysis]
    /\ UNCHANGED <<emergency, config, processes, instances, replicas, clock,
                   recoveries,
                   counters, pending, scenario, pc, loc>>

\* One iteration of CheckAndRecover's loop, on an entry in random order: the
\* entry is passed over, dispatched synchronously when a specific instance was
\* asked for, or else dispatched in a goroutine of its own.
CheckAndRecoverEntry ==
    /\ NoPanic
    /\ call.op = "CheckAndRecover"
    /\ call.pc = "looping"
    /\ \E e \in call.todo :
          LET rest == [call EXCEPT !.todo = @ \ {e}] IN
          IF SkipsEntry(e, call.specific)
            THEN call' = rest /\ UNCHANGED <<pc, loc>>
            ELSE /\ \E p \in scenario.procs : pc[p] = "idle"
                 /\ IF call.specific # Nil
                      THEN /\ Called(FreeProc, "CheckAndRecoverSpecific",
                                     e.key, e.code, call.candidate, call.skip)
                           /\ call' = [rest EXCEPT
                                  !.pc = "waiting", !.proc = FreeProc,
                                  !.trace = Append(@, Ev("call", e.key))]
                      ELSE /\ Called(FreeProc, "CheckAndRecover", e.key,
                                     e.code, call.candidate, call.skip)
                           /\ call' = [rest EXCEPT
                                  !.trace = Append(@, Ev("go", e.key))]
    /\ UNCHANGED <<emergency, config, processes, instances, replicas, clock,
                   recoveries,
                   counters, pending, scenario>>

\* CheckAndRecover takes the return of a synchronous dispatch, or leaves its
\* loop and returns.
CheckAndRecoverReturns ==
    /\ NoPanic
    /\ call.op = "CheckAndRecover"
    /\ \/ /\ call.pc = "waiting"
          /\ pc[call.proc] = "done"
          /\ call' = [call EXCEPT
                 !.pc = "looping",
                 !.attempted = loc[call.proc].attempted,
                 !.err = loc[call.proc].err,
                 !.trace = Append(@, Ev("return", loc[call.proc].key))]
       \/ /\ call.pc = "looping"
          /\ call.todo = {}
          /\ call' = [call EXCEPT !.pc = "returned"]
    /\ UNCHANGED <<emergency, config, processes, instances, replicas, clock,
                   recoveries,
                   counters, pending, scenario, pc, loc>>

\* An entry point returns an error without a recovery.
Fails(c, trace) ==
    call' = [c EXCEPT !.pc = "returned", !.err = TRUE, !.recovery = FALSE,
                      !.trace = @ \o trace]

\* The number of masters a read of the cluster's masters may return.
ClusterMasters == IF scenario.faults THEN 0..2 ELSE {1}

\* A variant of IsDirectChild that takes any instance for a child.
IsAnyInstance(destination, master) == TRUE

\* destination.MasterKey.Equals(&clusterMaster.Key): the metadata store has
\* the destination replicate from the master.
IsDirectChild(destination, master) == destination \in replicas[master]

\* ForceMasterTakeover up to its call of ForceExecuteRecovery.
ForceMasterTakeover ==
    /\ NoPanic
    /\ call.pc = "idle"
    /\ "ForceMasterTakeover" \in scenario.entries
    /\ \E master \in scenario.keys, masters \in ClusterMasters,
          destination \in scenario.candidates, analysisError \in May(FALSE) :
          LET c == [NoCall EXCEPT !.op = "ForceMasterTakeover",
                                  !.master = master,
                                  !.masters = masters,
                                  !.candidate = destination]
          IN  IF \/ masters # 1
                 \/ ~IsDirectChild(destination, master)
                 \/ analysisError
                THEN Fails(c, <<>>) /\ UNCHANGED <<pc, loc>>
                ELSE /\ Called(FreeProc, "ForceMasterTakeover", master,
                               "DeadMaster", destination, FALSE)
                     /\ call' = [c EXCEPT
                            !.pc = "waiting", !.proc = FreeProc,
                            !.target = destination,
                            !.trace = <<Ev("dispatch", destination)>>]
    /\ UNCHANGED <<emergency, config, processes, instances, replicas, clock,
                   recoveries,
                   counters, pending, scenario>>

\* What a takeover makes of ForceExecuteRecovery's return when it returns no
\* recovery: an error, no attempt, no record, or no successor.
NothingPromoted(l) ==
    \/ ~l.attempted
    \/ ~l.returned
    \/ l.rec.SuccessorKey = Nil

\* ForceMasterTakeover from the return of ForceExecuteRecovery on.
ForceMasterTakeoverReturns ==
    /\ NoPanic
    /\ call.op = "ForceMasterTakeover"
    /\ call.pc = "waiting"
    /\ pc[call.proc] = "done"
    /\ LET l == loc[call.proc]
           c == [call EXCEPT !.attempted = l.attempted]
       IN  IF l.err \/ NothingPromoted(l)
             THEN Fails(c, <<>>)
             ELSE call' = [c EXCEPT !.pc = "returned", !.recovery = TRUE]
    /\ UNCHANGED <<emergency, config, processes, instances, replicas, clock,
                   recoveries,
                   counters, pending, scenario, pc, loc>>

\* A key that InstanceKey.IsValid refuses.
InvalidKey == "invalid"

\* A variant of designatedInstance that settles for some direct replica when
\* the designated key names none and when there are several.
someDirectReplica(direct, designatedKey) ==
    IF designatedKey \in direct THEN designatedKey
                                ELSE CHOOSE d \in direct : TRUE

\* GracefulMasterTakeover's designatedInstance among the master's direct
\* replicas (at least one), Nil when the takeover is refused.
designatedInstance(direct, designatedKey) ==
    IF designatedKey \in {Nil, InvalidKey}
      THEN IF Cardinality(direct) > 1 THEN Nil
                                      ELSE CHOOSE d \in direct : TRUE
      ELSE IF designatedKey \in direct THEN designatedKey ELSE Nil

\* A variant of HooksThenFreeze that freezes the master first.
FreezeThenHooks(hooks, freeze) == freeze \o hooks

\* The order of GracefulMasterTakeover's steps from its hooks on: the
\* PreGracefulTakeoverProcesses hooks, then what follows them.
HooksThenFreeze(hooks, freeze) == hooks \o freeze

\* GracefulMasterTakeover from PreGracefulTakeoverProcesses to its call of
\* ForceExecuteRecovery: the audit steps, and whether it returns an error.
Freeze(master, designated, fails, readOnlyError, waitError) ==
    LET h == HookEv("PreGracefulTakeoverProcesses", fails, TRUE)
        ro == [Ev("set-read-only", master) EXCEPT !.err = readOnlyError]
        wait == [Ev("wait-coordinates", designated) EXCEPT !.err = waitError]
        err == h.err \/ readOnlyError \/ waitError
    IN  [err |-> err,
         trace |-> HooksThenFreeze(<<h>>,
                       IF h.err THEN <<>>
                       ELSE IF readOnlyError THEN <<ro>>
                       ELSE IF waitError THEN <<ro, wait>>
                       ELSE <<ro, wait, Ev("dispatch", designated)>>)]

\* GracefulMasterTakeover up to its call of ForceExecuteRecovery.
GracefulMasterTakeover ==
    /\ NoPanic
    /\ call.pc = "idle"
    /\ "GracefulMasterTakeover" \in scenario.entries
    /\ \E master \in scenario.keys, masters \in ClusterMasters,
          designatedKey \in scenario.candidates \cup {Nil, InvalidKey},
          readError \in May(FALSE), sane \in May(TRUE), lagging \in May(FALSE),
          takesOver \in May(TRUE), analysisError \in May(FALSE) :
          LET c == [NoCall EXCEPT !.op = "GracefulMasterTakeover",
                                  !.master = master,
                                  !.masters = masters,
                                  !.candidate = designatedKey]
              direct == replicas[master]
              designated == IF direct = {} THEN Nil
                            ELSE designatedInstance(direct, designatedKey)
          IN  IF \/ masters # 1
                 \/ readError
                 \/ designated = Nil
                THEN Fails(c, <<>>) /\ UNCHANGED <<pc, loc>>
              ELSE IF \/ IsBannedFromBeingCandidateReplica(designated)
                      \/ ~sane
                      \/ lagging
                THEN Fails(c, <<>>) /\ UNCHANGED <<pc, loc>>
              ELSE LET moved == IF Cardinality(direct) > 1
                                  THEN <<[Ev("relocate", designated)
                                            EXCEPT !.err = ~takesOver]>>
                                  ELSE <<>>
                   IN  IF Cardinality(direct) > 1 /\ ~takesOver
                         THEN Fails(c, moved) /\ UNCHANGED <<pc, loc>>
                       ELSE IF analysisError
                         THEN Fails(c, moved) /\ UNCHANGED <<pc, loc>>
                       ELSE \E fails \in HookFailures(
                                            "PreGracefulTakeoverProcesses"),
                               readOnlyError \in May(FALSE),
                               waitError \in May(FALSE) :
                              LET f == Freeze(master, designated, fails,
                                              readOnlyError, waitError)
                              IN  IF f.err
                                    THEN /\ Fails(c, moved \o f.trace)
                                         /\ UNCHANGED <<pc, loc>>
                                    ELSE /\ Called(FreeProc,
                                              "GracefulMasterTakeover", master,
                                              "DeadMaster", designated, FALSE)
                                         /\ call' = [c EXCEPT
                                                !.pc = "waiting",
                                                !.proc = FreeProc,
                                                !.target = designated,
                                                !.trace = moved \o f.trace]
    /\ UNCHANGED <<emergency, config, processes, instances, replicas, clock,
                   recoveries,
                   counters, pending, scenario>>

\* GracefulMasterTakeover from the return of ForceExecuteRecovery on.
GracefulMasterTakeoverReturns ==
    /\ NoPanic
    /\ call.op = "GracefulMasterTakeover"
    /\ call.pc = "waiting"
    /\ pc[call.proc] = "done"
    /\ LET l == loc[call.proc]
           c == [call EXCEPT !.attempted = l.attempted]
       IN  IF ~l.attempted \/ ~l.returned
             THEN Fails(c, <<>>)
           ELSE IF l.rec.SuccessorKey = Nil
             THEN Fails(c, <<Ev("undo-read-only", call.master)>>)
           ELSE \E changeError \in May(FALSE),
                   fails \in HookFailures("PostGracefulTakeoverProcesses") :
                  call' = [c EXCEPT
                      !.pc = "returned", !.recovery = TRUE,
                      !.err = changeError,
                      !.trace = @ \o
                          <<[Ev("change-master-to", call.master)
                               EXCEPT !.err = changeError],
                            Discarded(HookEv("PostGracefulTakeoverProcesses",
                                             fails, FALSE))>>]
    /\ UNCHANGED <<emergency, config, processes, instances, replicas, clock,
                   recoveries,
                   counters, pending, scenario, pc, loc>>

\* ------------------------------------------------------------ specifications

\* The first n keys of a list.
FirstKeys(list, n) == {list[i] : i \in {j \in DOMAIN list : j <= n}}

NoFlags == [f \in Flags |-> FALSE]

\* A topology: the failed instances, their masters and their siblings have
\* the home profile but for the sibling's data center and the master's
\* read_only; the first two replicas of k1 have the profiles given.
Topology(pa1, pa2, dc, ro) ==
    [k \in AllKeys |->
        IF k = "a1" THEN pa1
        ELSE IF k = "a2" THEN pa2
        ELSE IF k \in SiblingKeys THEN [HomeProfile EXCEPT !.DataCenter = dc]
        ELSE IF k \in MasterKeys THEN [HomeProfile EXCEPT !.ReadOnly = ro]
        ELSE HomeProfile]

\* What no dispatch has touched yet.
Fresh ==
    /\ clock = 0
    /\ recoveries = <<>>
    /\ counters = [c \in CounterNames |-> 0]
    /\ pending = 0
    /\ pc = [p \in Procs |-> "idle"]
    /\ loc = [p \in Procs |-> IdleLoc]
    /\ call = NoCall
    /\ emergency = NoEmergency

\* Concurrent dispatches in a nominal environment over a plain topology: one
\* replica below each failed instance, no hooks, no knob set, one analysis
\* code of each executor, collaborators that do not fail.
Init ==
    /\ Fresh
    /\ scenario = [procs |-> Procs, horizon |-> MaxClock,
                   keys |-> FailedKeys, entries |-> Entries,
                   codes |-> {"DeadMaster", "DeadIntermediateMaster",
                              "DeadCoMaster"},
                   skips |-> {TRUE}, candidates |-> {}, rafts |-> {"off"},
                   faults |-> FALSE, gates |-> FALSE]
    /\ config = NoFlags
    /\ processes = [b \in Batches |-> 0]
    /\ instances = Topology(HomeProfile, HomeProfile, "dc1", TRUE)
    /\ replicas = [k \in FailedKeys |-> FirstKeys(ReplicaSeq(k), 1)]

\* The environment of a single dispatch whose collaborators may fail.
Faulty(codes, entries, skips, rafts, horizon) ==
    [procs |-> {1}, horizon |-> horizon, keys |-> {"k1"}, entries |-> entries,
     codes |-> codes, skips |-> skips, candidates |-> {"a2"},
     rafts |-> rafts, faults |-> TRUE, gates |-> FALSE]

\* Dead-master recoveries, forced or not, under each geographic constraint,
\* over the replicas' drawn profiles.
PromotionWorlds ==
    {[scenario |-> Faulty({"DeadMaster"},
                          {"CheckAndRecover", "ForceExecuteRecovery"},
                          {TRUE}, {"off"}, 0),
      config |-> [f \in Flags |-> f \in g],
      instances |-> Topology(pa1, pa2, "dc1", TRUE)] :
        g \in SUBSET {"PreventCrossDataCenterMasterFailover",
                      "PreventCrossRegionMasterFailover"},
        pa1 \in ReplicaProfiles, pa2 \in ReplicaProfiles}

\* Every executor, with and without hooks, under each knob, over the
\* sibling's data centers and the other co-master's read_only.
KnobWorlds ==
    {[scenario |-> [Faulty({"DeadMaster", "DeadIntermediateMaster",
                            "DeadCoMaster", "UnreachableMaster", "NoProblem"},
                           {"CheckAndRecover"}, BOOLEAN, {"off"}, 1)
                        EXCEPT !.gates = TRUE],
      config |-> [f \in Flags |-> f = g],
      instances |-> Topology(Profile("dc1", "rg1", "env1", "prefer", TRUE),
                             HomeProfile, far.dc, far.ro)] :
        g \in Flags \cup {"none"},
        far \in {[dc |-> "dc1", ro |-> TRUE], [dc |-> "dc2", ro |-> TRUE],
                 [dc |-> "dc1", ro |-> FALSE]}}

\* Every analysis code and every caller, with and without hooks, on the raft
\* leader and on a follower, with gates that may be closed.
RaftWorlds ==
    {[scenario |-> [Faulty(Codes, Entries, BOOLEAN, {"leader", "follower"}, 0)
                        EXCEPT !.gates = TRUE],
      config |-> NoFlags,
      instances |-> Topology(Profile("dc1", "rg1", "env1", "prefer", TRUE),
                             HomeProfile, "dc1", TRUE)]}

\* A single dispatch in an environment whose collaborators may fail, every
\* hook batch configured, two replicas below the failed instance.
InitExec ==
    /\ Fresh
    /\ \E w \in PromotionWorlds \cup KnobWorlds \cup RaftWorlds :
          /\ scenario = w.scenario
          /\ config = w.config
          /\ instances = w.instances
    /\ processes = [b \in Batches |-> MaxHooks]
    /\ replicas = [k \in FailedKeys |->
                      IF k = "k1" THEN FirstKeys(ReplicaSeq(k), MaxReplicas)
                                  ELSE {}]

Next ==
    \/ \E p \in Procs : Dispatch(p)
    \/ \E p \in Procs : RecoverDeadMaster(p)
    \/ \E p \in Procs : RecoverDeadIntermediateMaster(p)
    \/ \E p \in Procs : RecoverDeadCoMaster(p)
    \/ \E p \in Procs : Resolve(p)
    \/ \E p \in Procs : Finish(p)
    \/ Tick

Spec == Init /\ [][Next]_vars

SpecExec == InitExec /\ [][Next]_vars

\* CheckAndRecover over every analysis of two instances, in a nominal
\* environment with no hooks.
CheckWorld ==
    [scenario |-> [procs |-> Procs, horizon |-> 0, keys |-> FailedKeys,
                   entries |-> {"CheckAndRecover", "CheckAndRecoverSpecific"},
                   codes |-> {"DeadMaster", "DeadIntermediateMaster",
                              "DeadCoMaster"},
                   skips |-> {TRUE}, candidates |-> {}, rafts |-> {"off"},
                   faults |-> FALSE, gates |-> FALSE],
     processes |-> [b \in Batches |-> 0],
     instances |-> Topology(HomeProfile, HomeProfile, "dc1", TRUE),
     replicas |-> [k \in FailedKeys |-> FirstKeys(ReplicaSeq(k), 1)]]

\* The takeovers of the master k1 with none to MaxReplicas direct replicas,
\* the first of them banned from promotion or not, in an environment whose
\* collaborators may fail, every hook batch configured.
TakeoverWorlds ==
    {[scenario |-> [procs |-> {1}, horizon |-> 0, keys |-> {"k1"},
                    entries |-> {"ForceMasterTakeover",
                                 "GracefulMasterTakeover"},
                    codes |-> {"DeadMaster"}, skips |-> {FALSE},
                    candidates |-> {"a1", "a2", "b1"}, rafts |-> {"off"},
                    faults |-> TRUE, gates |-> FALSE],
      processes |-> [b \in Batches |-> MaxHooks],
      instances |-> Topology(pa1, HomeProfile, "dc1", TRUE),
      replicas |-> [k \in FailedKeys |->
                       FirstKeys(ReplicaSeq(k), IF k = "k1" THEN n ELSE 1)]] :
        pa1 \in {Profile("dc1", "rg1", "env1", "prefer", TRUE),
                 Profile("dc1", "rg1", "env1", "must_not", TRUE)},
        n \in 0..MaxReplicas}

\* One call of an entry point.
InitEntry ==
    /\ Fresh
    /\ config = NoFlags
    /\ \E w \in {CheckWorld} \cup TakeoverWorlds :
          /\ scenario = w.scenario
          /\ processes = w.processes
          /\ instances = w.instances
          /\ replicas = w.replicas

NextEntry ==
    \/ CheckAndRecover
    \/ CheckAndRecoverEntry
    \/ CheckAndRecoverReturns
    \/ ForceMasterTakeover
    \/ ForceMasterTakeoverReturns
    \/ GracefulMasterTakeover
    \/ GracefulMasterTakeoverReturns
    \/ \E p \in Procs : Enter(p)
    \/ \E p \in Procs : RecoverDeadMaster(p)
    \/ \E p \in Procs : RecoverDeadIntermediateMaster(p)
    \/ \E p \in Procs : RecoverDeadCoMaster(p)
    \/ \E p \in Procs : Resolve(p)
    \/ \E p \in Procs : Finish(p)

SpecEntry == InitEntry /\ [][NextEntry]_vars

\* The pieces of a hook's command: the placeholders and text.
Tokens == Range(Placeholders) \cup {"text"}

\* The commands of at most MaxTokens pieces.
Commands == UNION {[1..n -> Tokens] : n \in 0..MaxTokens}

\* The fields of a recovery and its analysis entry that may be empty.
MayBeEmpty == {"{failureDescription}", "{command}", "{failureClusterAlias}",
               "{failureClusterDomain}", "{successorAlias}",
               "{lostReplicas}", "{replicaHosts}"}

\* The sets of empty fields a command is replaced under: none, one, all.
Empties == {{}, MayBeEmpty} \cup {{f} : f \in MayBeEmpty}

\* A hook batch to run on its own: its hooks, those that exit non-zero, and
\* failOnError.
BatchRuns ==
    {[op |-> "executeProcesses", pc |-> "idle", batch |-> b, n |-> n,
      fails |-> f, failOnError |-> e, order |-> <<>>, first |-> 0] :
        b \in Batches, n \in 0..MaxBatch, f \in SUBSET (1..MaxBatch),
        e \in BOOLEAN}

\* A hook's command to replace the placeholders of, for a recovery with or
\* without a successor.
Replacements ==
    [op : {"replaceCommandPlaceholders"}, pc : {"idle"}, command : Commands,
     successorKey : {Nil, "a1"}, empty : Empties, output : {<<>>}]

\* One run of a hook batch, or one command whose placeholders are replaced.
InitHooks ==
    /\ clock = 0
    /\ recoveries = <<>>
    /\ counters = [c \in CounterNames |-> 0]
    /\ pending = 0
    /\ pc = [p \in Procs |-> "idle"]
    /\ loc = [p \in Procs |-> IdleLoc]
    /\ emergency = NoEmergency
    /\ config = NoFlags
    /\ scenario = Faulty({}, {}, {FALSE}, {"off"}, 0)
    /\ instances = Topology(HomeProfile, HomeProfile, "dc1", TRUE)
    /\ replicas = [k \in FailedKeys |-> {}]
    /\ call \in BatchRuns \cup Replacements
    /\ processes = [b \in Batches |->
                       IF call.op = "executeProcesses" /\ b = call.batch
                         THEN call.n ELSE 0]
    /\ call.op = "executeProcesses" => call.fails \subseteq 1..call.n

\* executeProcesses on the batch of the call.
ExecuteProcesses ==
    /\ call.op = "executeProcesses"
    /\ call.pc = "idle"
    /\ LET r == executeProcesses(processes[call.batch], call.fails,
                                 call.failOnError)
       IN  call' = [call EXCEPT !.pc = "returned", !.order = r.order,
                                !.first = r.first]
    /\ UNCHANGED <<emergency, config, processes, instances, replicas, clock,
                   recoveries,
                   counters, pending, scenario, pc, loc>>

\* replaceCommandPlaceholders on the command of the call.
ReplaceCommandPlaceholders ==
    /\ call.op = "replaceCommandPlaceholders"
    /\ call.pc = "idle"
    /\ call' = [call EXCEPT
           !.pc = "returned",
           !.output = replaceCommandPlaceholders(call.command,
                                                 call.successorKey,
                                                 call.empty)]
    /\ UNCHANGED <<emergency, config, processes, instances, replicas, clock,
                   recoveries,
                   counters, pending, scenario, pc, loc>>

NextHooks == ExecuteProcesses \/ ReplaceCommandPlaceholders

SpecHooks == InitHooks /\ [][NextHooks]_vars

\* Dispatches of dead-master and lagging-replicas analyses of one instance
\* over the seconds of a grace period, in a nominal environment with no
\* hooks: the dead-master analyses are dispatched unforced and forced.
InitGrace ==
    /\ Fresh
    /\ scenario = [procs |-> Procs, horizon |-> GraceHorizon,
                   keys |-> {"k1"},
                   entries |-> {"CheckAndRecover", "ForceExecuteRecovery"},
                   codes |-> {"DeadMaster", "DeadMasterAndSomeSlaves",
                              "UnreachableMasterWithLaggingReplicas"},
                   skips |-> {TRUE}, candidates |-> {}, rafts |-> {"off"},
                   faults |-> FALSE, gates |-> FALSE]
    /\ config = NoFlags
    /\ processes = [b \in Batches |-> 0]
    /\ instances = Topology(HomeProfile, HomeProfile, "dc1", TRUE)
    /\ replicas = [k \in FailedKeys |-> FirstKeys(ReplicaSeq(k), 1)]

NextGrace ==
    \/ \E p \in Procs : Dispatch(p)
    \/ \E key \in FailedKeys :
          EmergentlyRestartReplicationOnTopologyInstanceReplicas(key)
    \/ \E key \in AllKeys :
          EmergentlyRestartReplicationOnTopologyInstance(key)
    \/ \E p \in Procs : RecoverDeadMaster(p)
    \/ \E p \in Procs : Resolve(p)
    \/ \E p \in Procs : Finish(p)
    \/ Tick

SpecGrace == InitGrace /\ [][NextGrace]_vars

\* ------------------------------------------------------- candidate siblings

\* The failed intermediate master as GetCandidateSiblingOfIntermediateMaster
\* reads it, itself a replica of its master: its exec coordinates are 1.
IntermediateMasterInstance ==
    [Key |-> "k1", SlaveHosts |-> 1, ExecBinlogCoordinates |-> 1,
     IsCandidate |-> FALSE, DataCenter |-> "dc1",
     PhysicalEnvironment |-> "env1", IsLastCheckValid |-> FALSE,
     LogBinEnabled |-> TRUE, LogSlaveUpdatesEnabled |-> TRUE,
     ReplicaRunning |-> FALSE, Banned |-> FALSE,
     HasReplicationFilters |-> FALSE, IsBinlogServer |-> FALSE]

\* The siblings a failed intermediate master may have: their count of
\* replicas, exec coordinates, candidacy, data center and last check vary.
SiblingInstances(key) ==
    {[IntermediateMasterInstance EXCEPT
         !.Key = key, !.SlaveHosts = n, !.ExecBinlogCoordinates = c,
         !.IsCandidate = cand, !.DataCenter = dc, !.IsLastCheckValid = ok,
         !.ReplicaRunning = TRUE] :
        n \in 0..1, c \in 0..2, cand \in BOOLEAN, dc \in {"dc1", "dc2"},
        ok \in BOOLEAN}

\* BinlogCoordinates.SmallerThan, on coordinates numbered in their order.
SmallerThan(a, b) == a < b

\* InstancesByCountReplicas.Less: fewer replicas first; of two instances
\* with as many replicas, the one not behind the other first.
InstancesByCountReplicasLess(a, b) ==
    IF a.SlaveHosts = b.SlaveHosts
      THEN ~SmallerThan(a.ExecBinlogCoordinates, b.ExecBinlogCoordinates)
      ELSE a.SlaveHosts < b.SlaveHosts

\* sort.Reverse: the ordering with its arguments exchanged.
ReverseLess(a, b) == InstancesByCountReplicasLess(b, a)

\* sort.Sort under sort.Reverse(InstancesByCountReplicas): the orders the
\* instances may come out in. No instance stands before one that the
\* ordering puts strictly ahead of it; the order of two instances that the
\* ordering puts each before the other is the sort's to choose.
SortedSiblings(instances_) ==
    {q \in [1..Cardinality(instances_) -> instances_] :
        /\ Range(q) = instances_
        /\ \A i, j \in DOMAIN q :
              i < j => ~(ReverseLess(q[j], q[i]) /\ ~ReverseLess(q[i], q[j]))}

\* isGeneralyValidAsCandidateSiblingOfIntermediateMaster.
isGeneralyValidAsCandidateSiblingOfIntermediateMaster(sibling) ==
    /\ sibling.LogBinEnabled
    /\ sibling.LogSlaveUpdatesEnabled
    /\ sibling.ReplicaRunning
    /\ sibling.IsLastCheckValid

\* isValidAsCandidateSiblingOfIntermediateMaster.
isValidAsCandidateSiblingOfIntermediateMaster(im, sibling) ==
    /\ sibling.Key # im.Key
    /\ isGeneralyValidAsCandidateSiblingOfIntermediateMaster(sibling)
    /\ ~sibling.Banned
    /\ sibling.HasReplicationFilters = im.HasReplicationFilters
    /\ sibling.IsBinlogServer = im.IsBinlogServer
    /\ ~SmallerThan(sibling.ExecBinlogCoordinates, im.ExecBinlogCoordinates)

\* The four searches of GetCandidateSiblingOfIntermediateMaster, in their
\* order: whether the sibling is one the search of this tier returns.
SiblingTier(tier, im, sibling) ==
    /\ isValidAsCandidateSiblingOfIntermediateMaster(im, sibling)
    /\ tier \in {1, 2} => sibling.IsCandidate
    /\ tier \in {1, 3} =>
          /\ sibling.DataCenter = im.DataCenter
          /\ sibling.PhysicalEnvironment = im.PhysicalEnvironment

\* The key of the first sibling of the sorted siblings that a search
\* returns, and the search; no sibling and tier 0 when none does.
FirstSibling(siblings, im) ==
    LET hits == {t \in 1..4 : \E i \in DOMAIN siblings :
                                SiblingTier(t, im, siblings[i])}
    IN  IF hits = {} THEN [sibling |-> Nil, tier |-> 0]
        ELSE LET t == CHOOSE t \in hits : \A u \in hits : t <= u
                 i == CHOOSE i \in DOMAIN siblings :
                        /\ SiblingTier(t, im, siblings[i])
                        /\ \A j \in DOMAIN siblings :
                              SiblingTier(t, im, siblings[j]) => i <= j
             IN  [sibling |-> siblings[i].Key, tier |-> t]

\* The replicas of the failed intermediate master's master that
\* GetCandidateSiblingOfIntermediateMaster is called over: the failed
\* instance and at most MaxSiblings siblings.
SiblingCalls ==
    {[op |-> "GetCandidateSiblingOfIntermediateMaster", pc |-> "idle",
      siblings |-> {IntermediateMasterInstance} \cup {f[k] : k \in DOMAIN f},
      found |-> [sibling |-> Nil, tier |-> 0], err |-> FALSE] :
        f \in UNION {{g \in [FirstKeys(<<"s1", "s2", "s3">>, n) ->
                                  UNION {SiblingInstances(k) :
                                            k \in {"s1", "s2", "s3"}}] :
                          \A k \in DOMAIN g : g[k].Key = k} :
                       n \in 0..MaxSiblings}}

\* One call of GetCandidateSiblingOfIntermediateMaster.
InitSelect ==
    /\ clock = 0
    /\ recoveries = <<>>
    /\ counters = [c \in CounterNames |-> 0]
    /\ pending = 0
    /\ pc = [p \in Procs |-> "idle"]
    /\ loc = [p \in Procs |-> IdleLoc]
    /\ emergency = NoEmergency
    /\ config = NoFlags
    /\ scenario = Faulty({}, {}, {FALSE}, {"off"}, 0)
    /\ instances = Topology(HomeProfile, HomeProfile, "dc1", TRUE)
    /\ replicas = [k \in FailedKeys |-> {}]
    /\ processes = [b \in Batches |-> 0]
    /\ call \in SiblingCalls

\* GetCandidateSiblingOfIntermediateMaster on the siblings of the call.
GetCandidateSiblingOfIntermediateMaster ==
    /\ call.op = "GetCandidateSiblingOfIntermediateMaster"
    /\ call.pc = "idle"
    /\ IF Cardinality(call.siblings) <= 1
         THEN call' = [call EXCEPT !.pc = "returned", !.err = TRUE]
         ELSE \E sorted \in SortedSiblings(call.siblings) :
                LET found == FirstSibling(sorted, IntermediateMasterInstance)
                IN  call' = [call EXCEPT !.pc = "returned", !.found = found,
                                         !.err = found.sibling = Nil]
    /\ UNCHANGED <<emergency, config, processes, instances, replicas, clock,
                   recoveries, counters, pending, scenario, pc, loc>>

NextSelect == GetCandidateSiblingOfIntermediateMaster

SpecSelect == InitSelect /\ [][NextSelect]_vars

\* ------------------------------------------------------------------ claims

\* The record the store holds for dispatch p's recovery.
Stored(p) == recoveries[loc[p].rec.Id]

\* Whether dispatch p registered a recovery.
Registered(p) == loc[p].rec.Id # 0

\* Whether the audit trail holds a step of the kind ev on what.
Did(trace, ev, what) ==
    \E i \in DOMAIN trace : trace[i].ev = ev /\ trace[i].what = what

\* Whether the audit trail holds a replacement of the promoted replica.
Replaced(trace) ==
    \E i \in DOMAIN trace : trace[i].ev = "take-master" /\ ~trace[i].err

\* Whether the audit trail holds a fatal error of an executor: a failing
\* pre-failover hook, an override gate that cancelled the promotion, or an
\* instance that could not be read.
FatalError(trace) ==
    \E i \in DOMAIN trace :
        /\ trace[i].err
        /\ \/ trace[i].ev \in {"gate", "read"}
           \/ trace[i].ev = "hooks" /\ trace[i].what = "PreFailoverProcesses"

\* Whether dispatch p just entered executeCheckAndRecoverFunction for a
\* failed instance that has an active recovery.
EntersWhileActive(p) ==
    /\ pc[p] = "idle"
    /\ pc'[p] # "idle"
    /\ HasActiveRecovery(recoveries, loc'[p].key)

\* C1: at every instant at most one recovery record of a failed instance key
\* is active, whatever the interleaving of the dispatches.
OneActiveRecoveryPerKey ==
    \A i, j \in DOMAIN recoveries :
        (i < j /\ recoveries[i].key = recoveries[j].key) =>
            ~(recoveries[i].isActive /\ recoveries[j].isActive)

\* C2: a forced dispatch for a failed key that has an active recovery
\* registers no second recovery and runs no executor.
ForcedDispatchIsSerialized ==
    [][\A p \in Procs :
          (EntersWhileActive(p) /\ loc'[p].force) =>
              (recoveries' = recoveries /\ pc'[p] = "done")]_vars

\* C3: CheckAndRecover re-issued for an analysis whose recovery is active,
\* with or without a specific instance, registers no record, runs no
\* executor, moves no counter and runs no pre- or post-failover hook.
ReissuedCheckAndRecoverIsNoOp ==
    [][\A p \in Procs :
          (/\ EntersWhileActive(p)
           /\ loc'[p].entry \in {"CheckAndRecover", "CheckAndRecoverSpecific"}
           /\ \E q \in Procs \ {p} :
                 /\ Registered(q)
                 /\ Stored(q).isActive
                 /\ loc[q].key = loc'[p].key
                 /\ loc[q].class = loc'[p].class) =>
              (/\ recoveries' = recoveries
               /\ counters' = counters
               /\ pc'[p] = "done"
               /\ \A i \in DOMAIN loc'[p].trace :
                     loc'[p].trace[i].ev = "hooks" =>
                         loc'[p].trace[i].what = "OnFailureDetectionProcesses")
      ]_vars

\* C4: two recovery records of the same failed instance key start at least
\* the cooldown apart, unless the later one was registered by a forced
\* dispatch.
CooldownBetweenRecoveries ==
    \A i, j \in DOMAIN recoveries :
        (/\ i < j
         /\ recoveries[i].key = recoveries[j].key
         /\ ~recoveries[j].forced) =>
            recoveries[j].startTs - recoveries[i].startTs >= Cooldown

\* A second, unforced recovery of a failed instance key is registered.
SecondUnforcedRecovery ==
    \E i, j \in DOMAIN recoveries :
        /\ i < j
        /\ recoveries[i].key = recoveries[j].key
        /\ ~recoveries[j].forced

\* C5: when a dispatch that registered a recovery returns, the recovery was
\* resolved exactly once and its record is no longer active.
ResolvedOnceOnReturn ==
    \A p \in Procs :
        (pc[p] = "done" /\ Registered(p)) =>
            (Stored(p).resolved = 1 /\ ~Stored(p).isActive)

\* C6: when a dispatch whose executor met a fatal error returns, a resolution
\* with no successor was published for its recovery and, unless
\* skipProcesses, the PostUnsuccessfulFailoverProcesses hooks ran.
FatalErrorStillResolves ==
    \A p \in Procs :
        (pc[p] = "done" /\ Registered(p) /\ FatalError(loc[p].trace)) =>
            (/\ Stored(p).resolved >= 1
             /\ Stored(p).successorKey = Nil
             /\ ~loc[p].skip =>
                    Did(loc[p].trace, "hooks",
                        "PostUnsuccessfulFailoverProcesses"))

\* C7: a recovery record is successful exactly when it holds a successor
\* key, and a successful record stays successful.
SuccessfulIffSuccessor ==
    /\ [](\A p \in Procs :
            loc[p].rec.IsSuccessful <=> loc[p].rec.SuccessorKey # Nil)
    /\ [][\A p \in Procs :
            loc[p].rec.IsSuccessful => loc'[p].rec.IsSuccessful]_vars

\* A dispatch returned a successful recovery.
SuccessfulRecovery ==
    \E p \in Procs :
        /\ pc[p] = "done"
        /\ loc[p].rec.IsSuccessful
        /\ loc[p].rec.SuccessorKey # Nil

\* C8: the participating instance keys of a recovery that has a successor
\* key hold that key.
SuccessorParticipates ==
    \A p \in Procs :
        loc[p].rec.SuccessorKey # Nil =>
            loc[p].rec.SuccessorKey \in loc[p].rec.ParticipatingInstanceKeys

\* C9: the successor key of a resolved recovery is none of its lost
\* replicas, also when the promoted replica was replaced by a candidate.
SuccessorNotLost ==
    \A p \in Procs :
        loc[p].rec.SuccessorKey # Nil =>
            loc[p].rec.SuccessorKey \notin loc[p].rec.LostReplicas

\* A dispatch returned a recovery that lost replicas and whose successor
\* replaced the promoted replica.
ReplacedWithLostReplicas ==
    \E p \in Procs :
        /\ pc[p] = "done"
        /\ loc[p].rec.SuccessorKey # Nil
        /\ loc[p].rec.LostReplicas # {}
        /\ Replaced(loc[p].trace)

\* C10: with PreventCrossDataCenterMasterFailover set, the successor of a
\* dead-master recovery is in the failed instance's data center, forced or
\* not, replaced by a candidate or not.
SuccessorInSameDataCenter ==
    \A p \in Procs :
        (/\ config["PreventCrossDataCenterMasterFailover"]
         /\ loc[p].class = "master"
         /\ loc[p].rec.SuccessorKey # Nil) =>
            instances[loc[p].rec.SuccessorKey].DataCenter =
                instances[loc[p].key].DataCenter

\* A forced dead-master dispatch returned, under the data center constraint,
\* a successor that replaced a promoted replica of another data center.
ConstrainedReplacement ==
    \E p \in Procs :
        /\ pc[p] = "done"
        /\ config["PreventCrossDataCenterMasterFailover"]
        /\ loc[p].class = "master"
        /\ loc[p].force
        /\ loc[p].rec.SuccessorKey # Nil
        /\ Replaced(loc[p].trace)
        /\ \E i \in DOMAIN loc[p].trace :
              /\ loc[p].trace[i].ev = "regrouped"
              /\ instances[loc[p].trace[i].what].DataCenter #
                     instances[loc[p].key].DataCenter

\* The number of postponed functions the dispatch's draining of the container
\* (TopologyRecovery.Wait) invoked.
Invoked(trace) ==
    LET hits == {i \in DOMAIN trace : trace[i].ev = "postponed"}
    IN  IF hits = {} THEN 0 ELSE trace[CHOOSE i \in hits : TRUE].n

\* C11: when a dispatch that registered a recovery returns, every postponed
\* function enqueued on the recovery has been invoked.
PostponedFunctionsComplete ==
    \A p \in Procs :
        (pc[p] = "done" /\ Registered(p)) =>
            Invoked(loc[p].trace) = loc[p].rec.Postponed

\* Whether the audit trail holds a step of the kind ev.
DidAny(trace, ev) == \E i \in DOMAIN trace : trace[i].ev = ev

\* Whether the audit trail holds a failed PreFailoverProcesses hook.
PreHookFailed(trace) ==
    \E i \in DOMAIN trace :
        /\ trace[i].ev = "hooks"
        /\ trace[i].what = "PreFailoverProcesses"
        /\ trace[i].err

\* C12: a dead-master recovery whose PreFailoverProcesses hook failed issues
\* no regroup, writes no cluster-master key-value pair and does not increment
\* recover.dead_master.success.
PreHookFailureAbortsDeadMaster ==
    \A p \in Procs :
        (loc[p].class = "master" /\ PreHookFailed(loc[p].trace)) =>
            /\ ~DidAny(loc[p].trace, "rewire")
            /\ ~DidAny(loc[p].trace, "regrouped")
            /\ ~DidAny(loc[p].trace, "kv")
            /\ counters["dead_master.success"] = 0

\* A dead-master dispatch whose PreFailoverProcesses hook failed returned.
DeadMasterPreHookFailed ==
    \E p \in Procs :
        /\ pc[p] = "done"
        /\ loc[p].class = "master"
        /\ PreHookFailed(loc[p].trace)

\* Whether the audit trail holds a run of the hook batch.
RanHooks(trace, batch) == Did(trace, "hooks", batch)

\* C13: when a dead-master dispatch whose regroup promoted no replica
\* returns, the recovery is resolved with no successor,
\* recover.dead_master.fail was incremented once, and, unless skipProcesses,
\* the PostUnsuccessfulFailoverProcesses hooks ran; the PostFailoverProcesses
\* and PostMasterFailoverProcesses hooks did not.
NoPromotionFailsDeadMaster ==
    \A p \in Procs :
        (/\ pc[p] = "done"
         /\ loc[p].class = "master"
         /\ Did(loc[p].trace, "regrouped", Nil)) =>
            /\ Stored(p).resolved = 1
            /\ Stored(p).successorKey = Nil
            /\ loc[p].rec.SuccessorKey = Nil
            /\ counters["dead_master.fail"] = 1
            /\ counters["dead_master.success"] = 0
            /\ ~loc[p].skip =>
                   RanHooks(loc[p].trace, "PostUnsuccessfulFailoverProcesses")
            /\ ~RanHooks(loc[p].trace, "PostFailoverProcesses")
            /\ ~RanHooks(loc[p].trace, "PostMasterFailoverProcesses")

\* A dead-master dispatch that ran its hooks returned after a regroup that
\* promoted no replica.
DeadMasterWithoutPromotion ==
    \E p \in Procs :
        /\ pc[p] = "done"
        /\ loc[p].class = "master"
        /\ ~loc[p].skip
        /\ Did(loc[p].trace, "regrouped", Nil)

\* C14: a dispatch on a node that is not the raft leader runs nothing but the
\* emergency probes: it registers no failure detection, runs no hook,
\* registers no recovery and enters no executor.
NonLeaderOnlyProbes ==
    \A p \in Procs :
        loc[p].raft = "follower" =>
            /\ pc[p] = "done"
            /\ ~Registered(p)
            /\ recoveries = <<>>
            /\ \A c \in CounterNames : counters[c] = 0
            /\ \A i \in DOMAIN loc[p].trace : loc[p].trace[i].ev = "probes"

\* A dispatch of an analysis that has an executor and starts probes returned
\* on a node that is not the leader.
NonLeaderDispatch ==
    \E p \in Procs :
        /\ pc[p] = "done"
        /\ loc[p].raft = "follower"
        /\ loc[p].class # "none"
        /\ loc[p].outcome = "non-leader"
        /\ DidAny(loc[p].trace, "probes")

\* The executors that register a recovery.
Executors == {"master", "intermediate", "comaster"}

\* Whether the audit trail holds nothing past the failure detection: probes,
\* the detection's registration and the OnFailureDetectionProcesses hooks.
OnlyDetected(trace) ==
    \A i \in DOMAIN trace :
        \/ trace[i].ev \in {"probes", "detection"}
        \/ /\ trace[i].ev = "hooks"
           /\ trace[i].what = "OnFailureDetectionProcesses"

\* C15: an unforced dispatch that finds recovery disabled globally, or its
\* cluster's automated-recovery policy flag unset, returns without error,
\* having registered no recovery, run no executor and no pre- or post-failover
\* hook; a forced dispatch registers its recovery whatever the two answer.
ClosedGateReturnsSilently ==
    \A p \in Procs :
        /\ (~loc[p].force /\ (loc[p].disabled \/ ~loc[p].policy)) =>
               /\ pc[p] = "done"
               /\ ~Registered(p)
               /\ ~loc[p].err
               /\ recoveries = <<>>
               /\ \A c \in CounterNames : counters[c] = 0
               /\ OnlyDetected(loc[p].trace)
        /\ (/\ loc[p].force
            /\ loc[p].class \in Executors
            /\ DidAny(loc[p].trace, "detection")
            /\ loc[p].outcome # "detection-error") =>
               Registered(p)

\* An unforced dispatch returned on its cluster's policy flag, past the
\* failure detection.
ReturnedOnPolicy ==
    \E p \in Procs :
        /\ pc[p] = "done"
        /\ ~loc[p].force
        /\ ~loc[p].disabled
        /\ ~loc[p].policy
        /\ loc[p].class \in Executors
        /\ DidAny(loc[p].trace, "detection")

\* The routing table as the claim gives it: the executor of an analysis code
\* and whether the recovery is actionable.
RoutingTable(code) ==
    IF code \in {"DeadMaster", "DeadMasterAndSomeSlaves"}
      THEN [fn |-> "master", actionable |-> TRUE]
    ELSE IF code \in {"DeadIntermediateMaster",
                      "DeadIntermediateMasterAndSomeSlaves",
                      "DeadIntermediateMasterWithSingleSlaveFailingToConnect",
                      "AllIntermediateMasterSlavesFailingToConnectOrDead"}
      THEN [fn |-> "intermediate", actionable |-> TRUE]
    ELSE IF code \in {"DeadCoMaster", "DeadCoMasterAndSomeSlaves"}
      THEN [fn |-> "comaster", actionable |-> TRUE]
    ELSE IF code \in {"DeadIntermediateMasterAndSlaves", "DeadMasterAndSlaves",
                      "UnreachableMaster",
                      "UnreachableMasterWithLaggingReplicas",
                      "AllMasterSlavesNotReplicating",
                      "AllMasterSlavesNotReplicatingOrDead"}
      THEN [fn |-> "generic", actionable |-> FALSE]
    ELSE [fn |-> "none", actionable |-> FALSE]

\* The executor and actionability a dispatch was routed to.
Routed(p) == [fn |-> loc[p].class, actionable |-> loc[p].actionable]

\* C16: every dispatch is routed as the routing table says, the failed
\* instance's emergency operation grace period aside: within it DeadMaster
\* and DeadMasterAndSomeSlaves go to the generic no-op, not actionable.
RoutingFollowsTableOutsideGrace ==
    \A p \in Procs :
        pc[p] # "idle" =>
            Routed(p) = IF loc[p].inGrace
                          THEN [fn |-> "generic", actionable |-> FALSE]
                          ELSE RoutingTable(loc[p].code)

\* C16 as stated: every dispatch is routed as the routing table says.
RoutingFollowsTable ==
    \A p \in Procs : pc[p] # "idle" => Routed(p) = RoutingTable(loc[p].code)

\* A DeadMaster analysis of an instance within its emergency operation grace
\* period was dispatched.
DeadMasterInGrace ==
    \E p \in Procs :
        /\ pc[p] = "done"
        /\ loc[p].code = "DeadMaster"
        /\ loc[p].inGrace
        /\ loc[p].class = "generic"

\* The audit steps of the rewiring and of the override gates.
RewiringSteps == {"rewire", "regrouped", "take-master", "detach-master-host",
                  "plan-a", "plan-b", "plan-c", "plan-d", "gate"}

\* C17: within a recovery, no rewiring step and no override gate comes after
\* the resolution.
RewiringAndGatesBeforeResolution ==
    \A p \in Procs :
        \A i, j \in DOMAIN loc[p].trace :
            (/\ loc[p].trace[i].ev = "resolve"
             /\ loc[p].trace[j].ev \in RewiringSteps) => j < i

\* The hook batches run after a recovery.
PostBatches == {"PostMasterFailoverProcesses",
                "PostIntermediateMasterFailoverProcesses",
                "PostFailoverProcesses", "PostUnsuccessfulFailoverProcesses"}

\* C18: within a recovery, every run of a post-failover hook batch comes
\* after the resolution.
ResolutionBeforePostHooks ==
    \A p \in Procs :
        \A j \in DOMAIN loc[p].trace :
            (/\ loc[p].trace[j].ev = "hooks"
             /\ loc[p].trace[j].what \in PostBatches) =>
                \E i \in DOMAIN loc[p].trace :
                    i < j /\ loc[p].trace[i].ev = "resolve"

Plans == {"plan-a", "plan-b", "plan-c", "plan-d"}

\* Whether some plan of the audit trail placed a replica.
SomePlanPlaced(trace) ==
    \E i \in DOMAIN trace : trace[i].ev \in Plans /\ trace[i].n > 0

\* C20: once RecoverDeadIntermediateMaster returned, the successor is nil
\* exactly when no plan placed any replica.
SuccessorIffSomePlanPlaced ==
    \A p \in Procs :
        (loc[p].class = "intermediate" /\
             pc[p] \in {"recovered", "resolved", "done"}) =>
            (loc[p].promoted = Nil <=> ~SomePlanPlaced(loc[p].trace))

\* C21: in a dead-co-master recovery, when CoMasterRecoveryMustPromoteOtherCoMaster
\* is set or the other co-master is writable, the recovery resolves with the
\* other co-master as successor, or with no successor as a failure.
MustPromoteOtherCoMaster ==
    \A p \in Procs :
        (/\ loc[p].class = "comaster"
         /\ pc[p] \in {"resolved", "done"}
         /\ Registered(p)
         /\ \/ config["CoMasterRecoveryMustPromoteOtherCoMaster"]
            \/ ~instances[MasterKeyOf(loc[p].key)].ReadOnly) =>
            /\ Stored(p).resolved = 1
            /\ Stored(p).successorKey \in {Nil, MasterKeyOf(loc[p].key)}
            /\ loc[p].rec.SuccessorKey = Stored(p).successorKey
            /\ (pc[p] = "done" /\ Stored(p).successorKey = Nil) =>
                   /\ ~loc[p].rec.IsSuccessful
                   /\ counters["dead_co_master.fail"] = 1
                   /\ counters["dead_co_master.success"] = 0

\* A dead-co-master dispatch that had to promote the other co-master returned
\* a failure after its regroup promoted another server.
OtherCoMasterNotPromoted ==
    \E p \in Procs :
        /\ pc[p] = "done"
        /\ loc[p].class = "comaster"
        /\ config["CoMasterRecoveryMustPromoteOtherCoMaster"]
        /\ \E i \in DOMAIN loc[p].trace :
              /\ loc[p].trace[i].ev = "regrouped"
              /\ loc[p].trace[i].what \notin {Nil, MasterKeyOf(loc[p].key)}
        /\ Stored(p).successorKey = Nil

\* A dead-co-master dispatch that had to promote the other co-master returned
\* it as the successor.
OtherCoMasterPromoted ==
    \E p \in Procs :
        /\ pc[p] = "done"
        /\ loc[p].class = "comaster"
        /\ Registered(p)
        /\ ~instances[MasterKeyOf(loc[p].key)].ReadOnly
        /\ Stored(p).successorKey = MasterKeyOf(loc[p].key)

\* C22: in a dead-co-master recovery, a final promotion that is not the other
\* co-master has a detach-replica-master-host issued on it before the
\* resolution, and none is issued on the other co-master when it is the final
\* promotion.
DetachBreaksReplicationCycle ==
    \A p \in Procs :
        (/\ loc[p].class = "comaster"
         /\ pc[p] \in {"resolved", "done"}
         /\ loc[p].promoted # Nil) =>
            LET tr == loc[p].trace
                other == MasterKeyOf(loc[p].key)
            IN  IF loc[p].promoted = other
                  THEN ~Did(tr, "detach-master-host", other)
                  ELSE \E i, j \in DOMAIN tr :
                         /\ i < j
                         /\ tr[i].ev = "detach-master-host"
                         /\ tr[i].what = loc[p].promoted
                         /\ tr[j].ev = "resolve"

\* Whether analysis entry e was dispatched.
Dispatched(e) ==
    \E p \in Procs :
        pc[p] # "idle" /\ loc[p].key = e.key /\ loc[p].code = e.code

\* C23: CheckAndRecover with a specific instance dispatches the entries of
\* that instance only, downtimed or not, forced, and one at a time, returning
\* once they returned; without one it dispatches every entry that is not
\* skippable due to downtime, and no other, each once, not forced and in a
\* task of its own.
CheckAndRecoverDispatches ==
    call.op = "CheckAndRecover" =>
        /\ \A p \in Procs :
              pc[p] # "idle" =>
                  \E e \in call.analysis :
                      /\ e.key = loc[p].key
                      /\ e.code = loc[p].code
                      /\ IF call.specific # Nil
                           THEN /\ e.key = call.specific
                                /\ loc[p].force
                                /\ pc[p] # "done" =>
                                       call.pc = "waiting" /\ call.proc = p
                           ELSE /\ ~loc[p].force
                                /\ ~e.downtimed
        /\ \A p, q \in Procs :
              (p # q /\ pc[p] # "idle" /\ pc[q] # "idle") =>
                  loc[p].key # loc[q].key
        /\ call.pc = "returned" =>
              \A e \in call.analysis :
                  (IF call.specific # Nil THEN e.key = call.specific
                                          ELSE ~e.downtimed) => Dispatched(e)

\* CheckAndRecover without a specific instance returned while the dispatch it
\* spawned is in flight, having passed over a downtimed entry.
SpawnedAndReturned ==
    /\ call.op = "CheckAndRecover"
    /\ call.specific = Nil
    /\ call.pc = "returned"
    /\ \E e \in call.analysis : e.downtimed /\ ~Dispatched(e)
    /\ \E p \in Procs : pc[p] \notin {"idle", "done"}

\* CheckAndRecover with a specific instance returned after the dispatch of
\* its downtimed entry did.
SpecificDowntimedDispatched ==
    /\ call.op = "CheckAndRecover"
    /\ call.specific # Nil
    /\ call.pc = "returned"
    /\ Cardinality(call.analysis) > 1
    /\ \E e \in call.analysis : e.downtimed /\ Dispatched(e)

\* Whether GracefulMasterTakeover was given a designated key.
Designated == call.candidate \notin {Nil, InvalidKey}

\* Whether the claim has GracefulMasterTakeover proceed: a designated key is
\* a direct replica of the master, and with none the master has exactly one.
TakeoverAccepted ==
    IF Designated THEN call.candidate \in replicas[call.master]
                  ELSE Cardinality(replicas[call.master]) = 1

\* The audit steps of a takeover that name the instance to promote.
TargetSteps == {"relocate", "wait-coordinates", "dispatch"}

\* C24: GracefulMasterTakeover goes past its validation only with a
\* designated key that is a direct replica of the master or, with none, a
\* master that has exactly one direct replica, and then works on that replica;
\* otherwise it returns an error, having run no hook, not set the master
\* read-only and dispatched no recovery.
GracefulTakeoverValidates ==
    call.op = "GracefulMasterTakeover" =>
        /\ (call.trace # <<>> \/ \E p \in Procs : pc[p] # "idle") =>
               /\ TakeoverAccepted
               /\ \A i \in DOMAIN call.trace :
                      call.trace[i].ev \in TargetSteps =>
                          /\ call.trace[i].what \in replicas[call.master]
                          /\ Designated =>
                                 call.trace[i].what = call.candidate
               /\ \A p \in Procs :
                      pc[p] # "idle" =>
                          /\ loc[p].key = call.master
                          /\ call.target \in replicas[call.master]
                          /\ Designated => call.target = call.candidate
        /\ ~TakeoverAccepted =>
               /\ call.pc = "returned"
               /\ call.err
               /\ ~call.recovery
               /\ call.trace = <<>>
               /\ \A p \in Procs : pc[p] = "idle"
               /\ recoveries = <<>>

\* GracefulMasterTakeover with no designated key was refused on a master
\* with several direct replicas.
TakeoverRefused ==
    /\ call.op = "GracefulMasterTakeover"
    /\ call.candidate = Nil
    /\ Cardinality(replicas[call.master]) > 1
    /\ call.pc = "returned"
    /\ call.err

\* GracefulMasterTakeover with no designated key dispatched a recovery that
\* targets the master's only direct replica.
TakeoverOfOnlyReplica ==
    /\ call.op = "GracefulMasterTakeover"
    /\ call.candidate = Nil
    /\ call.target \in replicas[call.master]
    /\ \E p \in Procs : pc[p] = "done" /\ loc[p].candidate = call.target

\* The place of an audit step in GracefulMasterTakeover's order of steps, 0
\* for a step the order does not name.
TakeoverRank(e) ==
    CASE e.ev = "hooks" /\ e.what = "PreGracefulTakeoverProcesses" -> 1
      [] e.ev = "set-read-only" -> 2
      [] e.ev = "wait-coordinates" -> 3
      [] e.ev = "dispatch" -> 4
      [] e.ev = "change-master-to" -> 5
      [] e.ev = "hooks" /\ e.what = "PostGracefulTakeoverProcesses" -> 6
      [] OTHER -> 0

\* C25: GracefulMasterTakeover takes its steps in this order, each after the
\* one before it succeeded: the PreGracefulTakeoverProcesses hooks, the
\* master set read-only, the wait for the designated replica, the forced
\* DeadMaster dispatch with the designated replica as candidate, the demoted
\* master repointed once the dispatch returned, the
\* PostGracefulTakeoverProcesses hooks; after a failing pre-graceful hook the
\* master is not set read-only.
GracefulTakeoverOrder ==
    call.op = "GracefulMasterTakeover" =>
        LET tr == call.trace IN
        /\ \A i, j \in DOMAIN tr :
              (i < j /\ TakeoverRank(tr[i]) > 0 /\ TakeoverRank(tr[j]) > 0) =>
                  TakeoverRank(tr[i]) < TakeoverRank(tr[j])
        /\ \A j \in DOMAIN tr :
              TakeoverRank(tr[j]) > 1 =>
                  \E i \in DOMAIN tr :
                      /\ i < j
                      /\ TakeoverRank(tr[i]) = TakeoverRank(tr[j]) - 1
                      /\ TakeoverRank(tr[j]) < 6 => ~tr[i].err
        /\ \A p \in Procs :
              pc[p] # "idle" =>
                  /\ \E i \in DOMAIN tr : tr[i] = Ev("dispatch", call.target)
                  /\ loc[p].code = "DeadMaster"
                  /\ loc[p].force
                  /\ (pc[p] = "called" \/ loc[p].class = "master") =>
                         loc[p].candidate = call.target
        /\ (\E i \in DOMAIN tr : tr[i].ev = "change-master-to") =>
               pc[call.proc] = "done"

\* GracefulMasterTakeover returned a recovery after its
\* PostGracefulTakeoverProcesses hooks.
TakeoverCompleted ==
    /\ call.op = "GracefulMasterTakeover"
    /\ call.pc = "returned"
    /\ call.recovery
    /\ \E i \in DOMAIN call.trace : TakeoverRank(call.trace[i]) = 6

\* GracefulMasterTakeover returned on a failing PreGracefulTakeoverProcesses
\* hook.
TakeoverAbortedByHook ==
    /\ call.op = "GracefulMasterTakeover"
    /\ call.pc = "returned"
    /\ \E i \in DOMAIN call.trace :
          TakeoverRank(call.trace[i]) = 1 /\ call.trace[i].err

\* C26: ForceMasterTakeover dispatches a recovery only when the cluster has a
\* single writable master and the destination replicates from it, and then a
\* forced DeadMaster recovery of that master with the destination as
\* candidate; otherwise it returns an error and dispatches nothing; it returns
\* a recovery only if the recovery has a successor.
ForcedTakeoverOfDirectChild ==
    call.op = "ForceMasterTakeover" =>
        LET child == /\ call.masters = 1
                     /\ call.candidate \in replicas[call.master]
        IN  /\ \A p \in Procs :
                  pc[p] # "idle" =>
                      /\ child
                      /\ loc[p].key = call.master
                      /\ loc[p].code = "DeadMaster"
                      /\ loc[p].force
                      /\ (pc[p] = "called" \/ loc[p].class = "master") =>
                             loc[p].candidate = call.candidate
            /\ ~child =>
                  /\ call.pc = "returned"
                  /\ call.err
                  /\ ~call.recovery
                  /\ \A p \in Procs : pc[p] = "idle"
                  /\ recoveries = <<>>
            /\ call.recovery =>
                  /\ call.pc = "returned"
                  /\ pc[call.proc] = "done"
                  /\ Registered(call.proc)
                  /\ loc[call.proc].rec.SuccessorKey # Nil
                  /\ Stored(call.proc).successorKey # Nil

\* ForceMasterTakeover returned no recovery after its dispatch resolved one
\* with no successor.
TakeoverPromotedNothing ==
    /\ call.op = "ForceMasterTakeover"
    /\ call.pc = "returned"
    /\ ~call.recovery
    /\ \E p \in Procs :
          /\ pc[p] = "done"
          /\ Registered(p)
          /\ loc[p].returned
          /\ loc[p].rec.SuccessorKey = Nil

\* ForceMasterTakeover returned a recovery.
TakeoverReturnedRecovery ==
    call.op = "ForceMasterTakeover" /\ call.recovery

\* ForceMasterTakeover refused a destination that replicates from another
\* instance.
TakeoverOfStrangerRefused ==
    /\ call.op = "ForceMasterTakeover"
    /\ call.masters = 1
    /\ call.candidate \notin replicas[call.master]
    /\ call.pc = "returned"

\* The first of a set of hooks, 0 when there is none.
FirstOf(hooks) ==
    IF hooks = {} THEN 0 ELSE CHOOSE i \in hooks : \A j \in hooks : i <= j

\* C27: executeProcesses runs the hooks of a batch one after the other in
\* their configured order; with failOnError it stops at the first failing
\* hook and returns its error; without, it runs every hook and returns the
\* error of the first failing hook, none if no hook failed.
HooksRunInOrder ==
    (call.op = "executeProcesses" /\ call.pc = "returned") =>
        LET n == processes[call.batch]
            failing == FirstOf(call.fails)
        IN  /\ \A i \in DOMAIN call.order : call.order[i] = i
            /\ call.first = failing
            /\ Len(call.order) = IF call.failOnError /\ failing # 0
                                   THEN failing ELSE n

\* A batch run with failOnError stopped at a failing hook that was not its
\* last.
BatchAborted ==
    /\ call.op = "executeProcesses"
    /\ call.pc = "returned"
    /\ call.failOnError
    /\ call.first # 0
    /\ Len(call.order) < processes[call.batch]

\* A batch run without failOnError ran every hook after two of them failed.
BatchRanThrough ==
    /\ call.op = "executeProcesses"
    /\ call.pc = "returned"
    /\ ~call.failOnError
    /\ Cardinality(call.fails) > 1
    /\ call.first \in 1..(processes[call.batch] - 1)
    /\ Len(call.order) = processes[call.batch]

\* C28: the command replaceCommandPlaceholders returns holds no placeholder,
\* whether the recovery has a successor or not.
NoPlaceholderRemains ==
    (call.op = "replaceCommandPlaceholders" /\ call.pc = "returned") =>
        \A i \in DOMAIN call.output : call.output[i] \notin Range(Placeholders)


\* C29: once a dispatch's recovery is resolved, nothing the dispatch does
\* until it returns changes the record's successor, its lost replicas or its
\* errors.
RecordFrozenAfterResolution ==
    [][\A p \in Procs :
          pc[p] = "resolved" =>
              /\ loc'[p].rec.SuccessorKey = loc[p].rec.SuccessorKey
              /\ loc'[p].rec.LostReplicas = loc[p].rec.LostReplicas
              /\ loc'[p].rec.AllErrors = loc[p].rec.AllErrors]_vars


\* The grace period of an instance has begun and has not expired.
InGraceWindow(key) ==
    \E item \in emergency.grace : item.key = key /\ clock <= item.expiration

\* The grace period of an instance has begun and has expired.
GraceWindowExpired(key) ==
    \E item \in emergency.grace : item.key = key /\ clock > item.expiration

\* Dispatch p starts, on a DeadMaster or DeadMasterAndSomeSlaves analysis.
DispatchesDeadMaster(p) ==
    /\ pc[p] = "idle"
    /\ pc'[p] # "idle"
    /\ loc'[p].code \in {"DeadMaster", "DeadMasterAndSomeSlaves"}

\* C30: a DeadMaster or DeadMasterAndSomeSlaves analysis dispatched while its
\* instance is in the grace period of an emergency operation goes to the
\* generic function as not actionable and returns at once, with no recovery
\* registered and nothing promoted; dispatched at any other time, and so
\* once the period has expired, it goes to the dead-master executor.
GraceWindowDefersDeadMaster ==
    [][\A p \in Procs :
          DispatchesDeadMaster(p) =>
              IF InGraceWindow(loc'[p].key)
                THEN /\ loc'[p].class = "generic"
                     /\ ~loc'[p].actionable
                     /\ pc'[p] = "done"
                     /\ recoveries' = recoveries
                     /\ loc'[p].rec.Id = 0
                     /\ loc'[p].promoted = Nil
                ELSE /\ loc'[p].class = "master"
                     /\ loc'[p].actionable]_vars

\* A dead-master analysis, forced, was dispatched in the grace period that a
\* restart of the instance's replicas began, and registered nothing.
DeferredInGraceWindow ==
    \E p \in Procs :
        /\ pc[p] = "done"
        /\ loc[p].code \in {"DeadMaster", "DeadMasterAndSomeSlaves"}
        /\ loc[p].force
        /\ loc[p].inGrace
        /\ loc[p].outcome = "generic"
        /\ InGraceWindow(loc[p].key)
        /\ emergency.restarted # {}
        /\ recoveries = <<>>

\* A dead-master analysis was dispatched after the grace period expired and
\* registered its recovery.
RecoveredAfterGraceWindow ==
    \E p \in Procs :
        /\ pc[p] = "registered"
        /\ loc[p].class = "master"
        /\ ~loc[p].inGrace
        /\ GraceWindowExpired(loc[p].key)
        /\ Registered(p)


\* The sibling of the call that has the key.
SiblingOfCall(key) == CHOOSE a \in call.siblings : a.Key = key

\* C31: the sibling GetCandidateSiblingOfIntermediateMaster returns is not
\* behind any sibling that the same search accepts and that has as many
\* replicas.
MoreAdvancedSiblingFirst ==
    (call.op = "GetCandidateSiblingOfIntermediateMaster" /\
     call.pc = "returned" /\ call.found.sibling # Nil) =>
        \A s \in call.siblings :
            (SiblingTier(call.found.tier, IntermediateMasterInstance, s) /\
             s.SlaveHosts = SiblingOfCall(call.found.sibling).SlaveHosts) =>
                ~SmallerThan(
                    SiblingOfCall(call.found.sibling).ExecBinlogCoordinates,
                    s.ExecBinlogCoordinates)


\* The place of a plan among the plans of a dead intermediate master's
\* recovery.
PlanRank(plan) ==
    CASE plan = "plan-a" -> 1
      [] plan = "plan-b" -> 2
      [] plan = "plan-c" -> 3
      [] OTHER -> 4

\* The steps of dispatch p's audit trail in which a plan placed a replica.
PlacingSteps(p) ==
    {i \in DOMAIN loc[p].trace :
        loc[p].trace[i].ev \in Plans /\ loc[p].trace[i].n > 0}

\* The server a plan's step moved replicas under: the sibling for plans A
\* and C, the replica the regroup promoted for plan B, the failed instance's
\* master for plan D.
PlanTarget(p, i) ==
    IF loc[p].trace[i].ev = "plan-b"
      THEN CHOOSE r \in replicas[loc[p].key] :
               r \in loc[p].rec.ParticipatingInstanceKeys
      ELSE loc[p].trace[i].what

\* C32: in a dead intermediate master's recovery the plans run in the order
\* A, B, C, D, and the successor the recovery is resolved with is the target
\* of the first plan that placed a replica.
FirstPlacingPlanSetsSuccessor ==
    \A p \in Procs :
        (/\ loc[p].class = "intermediate"
         /\ loc[p].resolves
         /\ pc[p] \in {"recovered", "resolved"}) =>
            /\ \A i, j \in DOMAIN loc[p].trace :
                  (/\ i < j
                   /\ loc[p].trace[i].ev \in Plans
                   /\ loc[p].trace[j].ev \in Plans) =>
                      PlanRank(loc[p].trace[i].ev) <
                          PlanRank(loc[p].trace[j].ev)
            /\ \A i \in PlacingSteps(p) :
                  (\A j \in PlacingSteps(p) : i <= j) =>
                      loc[p].promoted = PlanTarget(p, i)


\* The steps of dispatch p's audit trail that run the hook batch.
HookSteps(p, batch) ==
    {i \in DOMAIN loc[p].trace :
        loc[p].trace[i].ev = "hooks" /\ loc[p].trace[i].what = batch}

\* Dispatch p returned a recovery and did not skip the hooks.
ReturnedRecoveryWithHooks(p) ==
    pc[p] = "done" /\ loc[p].outcome = "recovered" /\ ~loc[p].skip

\* Dispatch p ran PostUnsuccessfulFailoverProcesses once, and neither ran
\* PostFailoverProcesses nor ended a downtime.
RanUnsuccessfulHooksOnly(p) ==
    /\ Cardinality(HookSteps(p, "PostUnsuccessfulFailoverProcesses")) = 1
    /\ HookSteps(p, "PostFailoverProcesses") = {}
    /\ \A i \in DOMAIN loc[p].trace : loc[p].trace[i].ev # "end-downtime"

\* Dispatch p ended the downtime of the instance and next ran
\* PostFailoverProcesses, once, and did not run
\* PostUnsuccessfulFailoverProcesses.
EndedDowntimeThenRanHooks(p, key) ==
    /\ HookSteps(p, "PostUnsuccessfulFailoverProcesses") = {}
    /\ Cardinality(HookSteps(p, "PostFailoverProcesses")) = 1
    /\ \A i \in HookSteps(p, "PostFailoverProcesses") :
          i > 1 /\ loc[p].trace[i - 1] = Ev("end-downtime", key)

\* C33 as stated: a dispatch that returns a recovery and does not skip the
\* hooks runs PostUnsuccessfulFailoverProcesses, once and alone, when the
\* recovery has no successor; otherwise it ends the downtime of the failed
\* instance and next runs PostFailoverProcesses, once and alone.
PostHooksFollowSuccessor ==
    \A p \in Procs :
        ReturnedRecoveryWithHooks(p) =>
            IF loc[p].rec.SuccessorKey = Nil
              THEN RanUnsuccessfulHooksOnly(p)
              ELSE EndedDowntimeThenRanHooks(p, loc[p].key)

\* C33: a dispatch that returns a recovery and does not skip the hooks runs
\* PostUnsuccessfulFailoverProcesses, once and alone, when the recovery has
\* no successor; otherwise it ends the downtime of the successor and next
\* runs PostFailoverProcesses, once and alone.
PostHooksFollowSuccessorDowntime ==
    \A p \in Procs :
        ReturnedRecoveryWithHooks(p) =>
            IF loc[p].rec.SuccessorKey = Nil
              THEN RanUnsuccessfulHooksOnly(p)
              ELSE EndedDowntimeThenRanHooks(p, loc[p].rec.SuccessorKey)

\* A dispatch returned a recovery with a successor after its general
\* post-failover hooks ran.
ReturnedAfterPostFailoverHooks ==
    \E p \in Procs :
        /\ ReturnedRecoveryWithHooks(p)
        /\ loc[p].rec.SuccessorKey # Nil
        /\ \E i \in HookSteps(p, "PostFailoverProcesses") :
              loc[p].trace[i].n > 0

\* A dispatch returned a recovery with no successor after its
\* post-unsuccessful-failover hooks ran.
ReturnedAfterUnsuccessfulHooks ==
    \E p \in Procs :
        /\ ReturnedRecoveryWithHooks(p)
        /\ loc[p].rec.SuccessorKey = Nil
        /\ \E i \in HookSteps(p, "PostUnsuccessfulFailoverProcesses") :
              loc[p].trace[i].n > 0


\* Every dispatch has returned or has not started.
AllReturned == \A p \in Procs : pc[p] \in {"idle", "done"}

\* The dispatches of a class whose recovery was resolved with a successor.
ResolvedWithSuccessor(class) ==
    {p \in Procs : /\ loc[p].class = class
                   /\ Registered(p)
                   /\ Stored(p).resolved = 1
                   /\ Stored(p).successorKey # Nil}

\* C34: once every dispatch has returned, each executor's start counter is
\* the sum of its success and fail counters, and its success counter counts
\* the recoveries resolved with a successor.
StartedIsSucceededPlusFailed ==
    AllReturned =>
        \A class \in {"master", "intermediate", "comaster"} :
            /\ counters[StartCounter(class)] =
                   counters[SuccessCounter(class)] +
                       counters[FailureCounter(class)]
            /\ counters[SuccessCounter(class)] =
                   Cardinality(ResolvedWithSuccessor(class))

\* C35: SuggestReplacementForPromotedReplica completes without faulting when
\* the dead instance's record cannot be read: no dispatch that replaces a
\* promoted replica ends in a fault.
ReplacementSearchNeverFaults ==
    \A p \in Procs :
        loc[p].class \in {"master", "comaster"} => pc[p] # "panic"

\* The steps of the entry point's audit trail that ran a step without error.
CallSteps(what) ==
    {i \in DOMAIN call.trace :
        call.trace[i].ev = what /\ ~call.trace[i].err}

\* C36: whenever GracefulMasterTakeover returns no recovery after it has set
\* the old master read-only, it has set the old master back to writable
\* before it returned.
FailedTakeoverUndoesReadOnly ==
    (/\ call.op = "GracefulMasterTakeover"
     /\ call.pc = "returned"
     /\ ~call.recovery
     /\ CallSteps("set-read-only") # {})
        => \E i \in CallSteps("set-read-only"),
              j \in CallSteps("undo-read-only") : i < j

\* C37: whenever ForceMasterTakeover or GracefulMasterTakeover returns a
\* recovery, the recovery's successor is the destination (designated)
\* instance, and GracefulMasterTakeover repoints the demoted master to the
\* designated instance only when that instance is the recorded successor.
TakeoverSuccessorIsDesignated ==
    (/\ call.op \in {"ForceMasterTakeover", "GracefulMasterTakeover"}
     /\ call.pc = "returned"
     /\ \/ call.recovery
        \/ \E i \in DOMAIN call.trace : call.trace[i].ev = "change-master-to")
        => loc[call.proc].rec.SuccessorKey = call.target

\* The instances SuggestReplacementForPromotedReplica returned with action
\* required and that the dispatch then tried to promote.
SuggestedReplacements(p) ==
    {loc[p].trace[i].what : i \in {j \in DOMAIN loc[p].trace :
                                      loc[p].trace[j].ev = "take-master"}}

\* C38: with no operator candidate, a replacement that
\* SuggestReplacementForPromotedReplica returns with action required
\* satisfies the geographic constraint with respect to the failed instance,
\* whichever search step selected it.
SuggestedReplacementIsAcceptable ==
    \A p \in Procs :
        loc[p].candidate = Nil =>
            \A k \in SuggestedReplacements(p) :
                MasterFailoverGeographicConstraintSatisfied(loc[p].key, k)

\* Whether the audit trail holds a failed OnFailureDetectionProcesses hook.
DetectionHookFailed(trace) ==
    \E i \in DOMAIN trace :
        /\ trace[i].ev = "hooks"
        /\ trace[i].what = "OnFailureDetectionProcesses"
        /\ trace[i].err

\* Whether the dispatch passed the executor lookup and the raft test without
\* registering the detection.
DetectionNotRegistered(p) ==
    /\ pc[p] # "idle"
    /\ loc[p].outcome \notin {"no-route", "non-leader"}
    /\ ~DidAny(loc[p].trace, "detection")

\* C39: a dispatch whose detection was registered and whose
\* OnFailureDetectionProcesses hook failed returns that error without
\* consulting the recovery-disabled gate, registering a recovery or invoking
\* an executor, forced or not; a dispatch whose detection was not registered
\* goes on to the recovery-disabled gate.
DetectionHookFailureAborts ==
    \A p \in Procs :
        /\ DetectionHookFailed(loc[p].trace) =>
               /\ pc[p] = "done"
               /\ loc[p].outcome = "detection-error"
               /\ loc[p].err
               /\ ~loc[p].attempted
               /\ ~loc[p].disabled
               /\ loc[p].rec = NewTopologyRecovery(0)
               /\ ~DidAny(loc[p].trace, "register")
               /\ ~DidAny(loc[p].trace, "rewire")
        /\ DetectionNotRegistered(p) =>
               /\ loc[p].outcome # "detection-error"
               /\ loc[p].outcome = "disabled" <=>
                      RecoveryDisabledGate(loc[p].force, loc[p].disabled)

\* A forced dispatch returned on a failed OnFailureDetectionProcesses hook.
ForcedDispatchFailedOnDetectionHook ==
    \E p \in Procs :
        /\ pc[p] = "done"
        /\ loc[p].force
        /\ DetectionHookFailed(loc[p].trace)

\* A dispatch whose detection was not registered registered a recovery.
RegisteredWithoutDetection ==
    \E p \in Procs :
        /\ DetectionNotRegistered(p)
        /\ DidAny(loc[p].trace, "register")

\* The audit trail less the hook batches and the end of the successor's
\* downtime that goes with the PostFailoverProcesses batch.
WithoutHooks(trace) ==
    SelectSeq(trace, LAMBDA e : e.ev \notin {"hooks", "end-downtime"})

\* The places of a step in an audit trail.
Places(trace, ev) == {i \in DOMAIN trace : trace[i].ev = ev}

\* The steps of the rewirer, per executor.
RewirerSteps(class) ==
    IF class = "intermediate" THEN {"plan-a", "plan-b", "plan-c", "plan-d"}
                              ELSE {"rewire"}

\* Registration, rewiring, resolution and the wait for the postponed
\* functions as a dispatch that returned a recovery performed them: one
\* registration, then the rewirer unless the executor failed to read the
\* topology, then the resolution when the executor reached it, and last the
\* wait for all the postponed functions of the record.
PerformedInFull(l, trace) ==
    LET reg == Places(trace, "register")
        rew == UNION {Places(trace, ev) : ev \in RewirerSteps(l.class)}
        res == Places(trace, "resolve")
        wait == Places(trace, "postponed")
    IN  /\ Cardinality(reg) = 1
        /\ l.rec.Id \in DOMAIN recoveries
        /\ recoveries[l.rec.Id].key = l.key
        /\ (\A i \in Places(trace, "read") : ~trace[i].err) => rew # {}
        /\ \A i \in reg, j \in rew : i < j
        /\ Cardinality(res) = IF l.resolves THEN 1 ELSE 0
        /\ \A i \in rew, j \in res : i < j
        /\ recoveries[l.rec.Id].isActive = ~l.resolves
        /\ l.resolves =>
               recoveries[l.rec.Id].successorKey = l.rec.SuccessorKey
        /\ wait = {Len(trace)}
        /\ trace[Len(trace)].n = l.rec.Postponed

\* C40: a dispatch with skipProcesses runs no hook batch at any point, and
\* performs registration, rewiring, resolution and the wait for the
\* postponed functions as a dispatch without skipProcesses does.
SkipProcessesSkipsOnlyHooks ==
    \A p \in Procs :
        /\ loc[p].skip => ~DidAny(loc[p].trace, "hooks")
        /\ (/\ pc[p] = "done"
            /\ loc[p].outcome = "recovered"
            /\ ~PreHookFailed(loc[p].trace)) =>
               PerformedInFull(loc[p], WithoutHooks(loc[p].trace))

\* A dispatch with skipProcesses returned a recovery with a successor after
\* it waited for a postponed function.
RecoveredWithoutHooks ==
    \E p \in Procs :
        /\ pc[p] = "done"
        /\ loc[p].skip
        /\ loc[p].outcome = "recovered"
        /\ loc[p].rec.SuccessorKey # Nil
        /\ loc[p].rec.Postponed > 0

====
